---------------------------- MODULE Spec2Model ----------------------------
(***************************************************************************)
(* Model of the slot-booking core of the calendar Telegram bot:            *)
(*   - the per-user conversation state machine (aiogram FSM storage),      *)
(*   - BookingService.book_slot / cancel_booking against the remote        *)
(*     calendar, the audit ledger (Google Sheets) and the lesson table,    *)
(*   - the reminder and completion sweeps of the scheduler.                *)
(*                                                                         *)
(* Time is in minutes.  Slot times are minutes of local (Moscow) time      *)
(* counted from local midnight of the day before the first offered day;    *)
(* stored lesson times are UTC-naive, i.e. shifted by MSK_OFFSET.          *)
(*                                                                         *)
(* Fault model: every remote call made by the booking code (calendar       *)
(* list / insert / delete, ledger write, lesson-table write) either        *)
(* succeeds or fails after its retries; delivery of a reminder either      *)
(* succeeds or fails.  Replies of the dialog handlers to the user are      *)
(* delivered, and the statements of the scheduler jobs on the lesson table *)
(* succeed.  Updates of one chat are handled one at a time; updates of     *)
(* different chats interleave at the suspension points of the handlers     *)
(* (the calendar and ledger calls are synchronous and do not suspend).     *)
(*                                                                         *)
(* Spec is the dialog with the booking service; SpecSweep is the scheduler *)
(* next to users who cancel bookings.                                      *)
(*                                                                         *)
(* SpecFunnel is the free-text handler with its moderation guard, the end  *)
(* of onboarding, /book and the operator's unblock.  There the classifier  *)
(* (LLM) may be unavailable or fail on every attempt, and the two writes   *)
(* of finish_onboarding may fail; the statements of the moderation code on *)
(* the profile table succeed and operator notifications are delivered.     *)
(* SpecFunnel handles one text message of a user at a time; SpecFlood is   *)
(* the same handler for users who finished onboarding and write again      *)
(* before the previous message is answered.                                *)
(*                                                                         *)
(* SpecPure applies the slot functions and the time conversions to         *)
(* arguments drawn in the initial state.  SpecLoop is the event loop with  *)
(* the calls the handlers make on it without awaiting.                     *)
(***************************************************************************)
EXTENDS Integers, Sequences, FiniteSets, TLC

(***************************************************************************)
(* Bounds of the model.                                                    *)
(***************************************************************************)
NumUsers == 2
NumDays == 1
EndHour == 11
MaxEvents == 3
MaxCommands == 3
TickStep == 10
MaxTicks == 3
MaxMessages == 4
MaxChildren == 2
\* handlers of one user in flight at a time
MaxInFlight == 2
\* start_polling handles every update in a task of its own, so a user who
\* writes again before the answer has a second handler in flight
Slots == 1 .. MaxInFlight
\* messages received while another message of the same user is being handled
MaxOverlaps == 1
\* messages still to come when the overlapping starts
FloodMessages == 2
\* unblocks by the operator
MaxUnblocks == 1
\* busy intervals handed to the slot functions, and the quarter hours after
\* the start of the day their ends are taken from
MaxBusy == 2
BusyQuarters == 8
\* wall-clock samples given to the time conversions, one every TimeStep minutes
TimeSamples == 24
TimeStep == 90
\* updates received by the event loop
MaxUpdates == 4
\* rows kept of a user's dialog
MaxDialog == 6
\* events the calendar accepts while create_event is studied
MaxInserted == 5

(***************************************************************************)
(* Program constants.                                                      *)
(***************************************************************************)
START_HOUR == 9
SLOT_DURATION == 60
ScanInterval == 30
MSK_OFFSET == 180
END_HOUR == 18
MinutesPerDay == 1440
WINDOW_24H_START == 1430
WINDOW_24H_END == 1450
WINDOW_1H_START == 50
WINDOW_1H_END == 70
WIDE_END == 1500
COMPLETED_AFTER == 60
IRRELEVANT_QUERY_LIMIT == 3
MAX_ATTEMPTS == 3
HISTORY_WINDOW == 5
MAX_INSERT_ATTEMPTS == 3
\* load_dialog: limit
DIALOG_LIMIT == 20
\* process_child_age: the ages it accepts
MIN_CHILD_AGE == 1
MAX_CHILD_AGE == 18

Users == 1..NumUsers
Days == 1..NumDays
EventIds == 1..MaxEvents
NoVal == 0

(***************************************************************************)
(* Time helpers.                                                           *)
(***************************************************************************)
DayStart(d) == d * MinutesPerDay + START_HOUR * 60
DayEnd(d) == d * MinutesPerDay + EndHour * 60

\* to_utc_naive: an aware local time is moved to UTC and its zone dropped
to_utc_naive(t) == t - MSK_OFFSET

\* an overlap test that takes touching intervals for overlapping
Overlaps_touching(s, e, b) == s <= b.end /\ e >= b.start

\* the overlap test used by get_free_slots and is_slot_available
Overlaps(s, e, b) == s < b.end /\ e > b.start

\* get_busy_slots(start, end): the calendar's events intersecting the range
BusySlots(cal, s, e) ==
    { [start |-> ev.start, end |-> ev.end] : ev \in { x \in cal : x.end > s /\ x.start < e } }

\* a scan that moves on by the slot duration
RECURSIVE ScanDay_by_slot(_, _, _)
ScanDay_by_slot(cur, endOfDay, busy) ==
    IF ~(cur < endOfDay) THEN << >>
    ELSE IF cur + SLOT_DURATION > endOfDay THEN << >>
    ELSE LET isBusy == \E b \in busy : Overlaps(cur, cur + SLOT_DURATION, b)
             rest == ScanDay_by_slot(cur + SLOT_DURATION, endOfDay, busy)
         IN IF isBusy THEN rest ELSE << cur >> \o rest

\* a scan that takes every candidate starting before the end of the day
RECURSIVE ScanDay_unbounded(_, _, _)
ScanDay_unbounded(cur, endOfDay, busy) ==
    IF ~(cur < endOfDay) THEN << >>
    ELSE LET isBusy == \E b \in busy : Overlaps(cur, cur + SLOT_DURATION, b)
             rest == ScanDay_unbounded(cur + ScanInterval, endOfDay, busy)
         IN IF isBusy THEN rest ELSE << cur >> \o rest

\* the scan loop of get_free_slots for one day, from candidate cur on
RECURSIVE ScanDay(_, _, _)
ScanDay(cur, endOfDay, busy) ==
    IF ~(cur < endOfDay) THEN << >>
    ELSE IF cur + SLOT_DURATION > endOfDay THEN << >>
    ELSE LET isBusy == \E b \in busy : Overlaps(cur, cur + SLOT_DURATION, b)
             rest == ScanDay(cur + ScanInterval, endOfDay, busy)
         IN IF isBusy THEN rest ELSE << cur >> \o rest

\* the working hours of day d: current_day at start_hour, end_of_day at endHour
DayEndAt(d, endHour) == d * MinutesPerDay + endHour * 60

\* a day loop that gives up at the first day whose busy list cannot be fetched
RECURSIVE FreeSlotsOver_breaking(_, _, _, _, _)
FreeSlotsOver_breaking(d, last, endHour, cal, okDays) ==
    IF d > last THEN << >>
    ELSE IF d \notin okDays THEN << >>
    ELSE ScanDay(DayStart(d), DayEndAt(d, endHour),
                 BusySlots(cal, DayStart(d), DayEndAt(d, endHour)))
         \o FreeSlotsOver_breaking(d + 1, last, endHour, cal, okDays)

\* the day loop of get_free_slots over the days d..last; okDays are the days
\* whose busy list could be fetched: a day whose fetch failed is logged and
\* skipped (continue), the loop goes on with the next day
RECURSIVE FreeSlotsOver(_, _, _, _, _)
FreeSlotsOver(d, last, endHour, cal, okDays) ==
    IF d > last THEN << >>
    ELSE (IF d \in okDays
          THEN ScanDay(DayStart(d), DayEndAt(d, endHour),
                       BusySlots(cal, DayStart(d), DayEndAt(d, endHour)))
          ELSE << >>) \o FreeSlotsOver(d + 1, last, endHour, cal, okDays)

\* get_free_slots(days, skip_today=True) over the days of the model
FreeSlotsFrom(d, cal, okDays) == FreeSlotsOver(d, NumDays, EndHour, cal, okDays)

get_free_slots(cal, okDays) == FreeSlotsFrom(1, cal, okDays)

SeqToSet(s) == { s[i] : i \in 1..Len(s) }

\* every slot start a slot button can carry
Candidates == SeqToSet(get_free_slots({}, Days))

\* a re-check that only asks whether the list call worked
is_slot_available_unchecked(cal, s, e, listOk) == listOk

\* is_slot_available: False when the list call fails or an event overlaps
is_slot_available(cal, s, e, listOk) ==
    IF ~listOk THEN FALSE
    ELSE ~(\E b \in BusySlots(cal, s, e) : Overlaps(s, e, b))


(***************************************************************************)
(* Users.  get_user_events recognises a user's events by the text          *)
(* "User ID: <id>" occurring in the event description.                     *)
(***************************************************************************)
TelegramId(u) == IF u = 1 THEN 7 ELSE 70 + u

\* a is a prefix of the decimal digits of b
RECURSIVE IsDecPrefix(_, _)
IsDecPrefix(a, b) == IF a = b THEN TRUE ELSE IF b < 10 THEN FALSE ELSE IsDecPrefix(a, b \div 10)

\* f"User ID: {user_id}" in description: a substring test, nothing delimits the id
IsUserEvent(ev, u) == IsDecPrefix(TelegramId(u), TelegramId(ev.owner))

\* get_user_events: the ids of the trial-lesson events matched to the user
get_user_events(cal, u) == { ev.id : ev \in { x \in cal : IsUserEvent(x, u) } }

(***************************************************************************)
(* State.                                                                  *)
(***************************************************************************)
VARIABLES
    calendar,      \* remote calendar: set of [id, start, end, owner]
    nextEventId,   \* id the calendar gives to the next inserted event
    ledger,        \* audit sheet: status of the row of each event id
    lessons,       \* TrialLesson table, a lesson's id is its index
    fsmState,      \* FSM storage: state of each user
    fsmData,       \* FSM storage: data of each user
    task,          \* the update of each user being handled: handler, position, locals
    outbox,        \* the last message the bot sent: [user, text, reason]
    commands,      \* commands (/book, /reschedule, /cancel) received so far
    now,           \* scheduler clock (UTC minutes)
    ticks,         \* clock steps taken
    rjob,          \* reminder job: position, locals and last log line
    cjob,          \* completion sweeps: position and locals of each caller
    delivered      \* number of reminders delivered, per lesson and kind

VARIABLES
    parents,       \* Parent table: the profile row of each user
    children,      \* Child table: number of rows of each parent
    msg,           \* the text messages of each user being handled: position and locals
    blockNotes,    \* block notifications sent to the operators, per user
    hist,          \* history of each user's moderation (not program state)
    msgs           \* text messages received so far, and those that overlapped another, unblocks

funnelVars == << parents, children, msg, blockNotes, hist, msgs >>

VARIABLES
    calc,          \* a call of a time or slot function: its arguments and results
    loop           \* the event loop: who runs on it, and each update's handler

\* what the booking dialog and the scheduler never touch
VARIABLES
    run,           \* handle_text_message seen as the calls that can raise, per user
    dialog,        \* DialogHistory table: number of rows of each user
    ins,           \* create_event under sync_retry: the book_slot call making it
    again          \* a confirm_booking callback of each user handled while the
                   \* user's previous one is still in progress

moreVars == << run, dialog, ins, again >>

extVars == << funnelVars, calc, loop, moreVars >>

vars == << calendar, nextEventId, ledger, lessons, fsmState, fsmData, task, outbox,
           commands, now, ticks, rjob, cjob, delivered, extVars >>

sweepVars == << now, ticks, rjob, cjob, delivered, extVars >>

\* a command is received
Command == commands < MaxCommands /\ commands' = commands + 1

FsmIdle == "idle"
\* user_answers: the keys of the onboarding answers kept in the FSM data
EmptyData == [selected_slot |-> NoVal, selected_event |-> NoVal, new_slot |-> NoVal, events |-> {},
              user_answers |-> {}]

\* no update of the user is being handled
NoTask == [kind |-> "none", pc |-> "done", slot |-> NoVal, cancel_event_id |-> NoVal,
           cancelled_event |-> NoVal, event_id |-> NoVal]

\* the handler of user u returns
Returns(u) == task' = [task EXCEPT ![u] = NoTask]

\* bot.send_message / edit_text to user u; reason is the error text quoted in it
SaysWhy(u, text, reason) == outbox' = [user |-> u, text |-> text, reason |-> reason]
Says(u, text) == SaysWhy(u, text, "none")

\* updates of one chat are handled one at a time
Ready(u) == task[u].pc = "done"

\* set_state(None) in place of clear(): the data stays
ClearedStateOnly(u) == /\ fsmState' = [fsmState EXCEPT ![u] = FsmIdle]
                       /\ UNCHANGED fsmData

\* state.clear()
Cleared(u) == /\ fsmState' = [fsmState EXCEPT ![u] = FsmIdle]
              /\ fsmData' = [fsmData EXCEPT ![u] = EmptyData]

NewLesson(u, start, eid) ==
    [parent |-> u, scheduled_at |-> to_utc_naive(start), status |-> "PLANNED",
     event_id |-> eid, reminder_24h_sent |-> FALSE, reminder_1h_sent |-> FALSE]

\* the reminder job at rest; log is what its last run logged
NoJob(log) == [pc |-> "idle", batch |-> {}, pending |-> {}, log |-> log]

\* check_completed_lessons is called by the reminder job and by its own job
CJobs == {"reminders", "completion"}
NoCJob == [pc |-> "idle", todo |-> << >>, pos |-> 0]

Kinds == {"24h", "1h"}
NoneDelivered == [i \in EventIds |-> [k \in Kinds |-> 0]]

\* Parent(telegram_id, username): the defaults of a new profile row
NewParent == [is_blocked |-> FALSE, irrelevant_count |-> 0,
              onboarding_completed_at |-> FALSE, contact |-> FALSE]

\* no text message of the user is being handled
NoMsg == [pc |-> "idle", kind |-> "none", call |-> 0, attempt |-> 0,
          read |-> 0, new_count |-> 0, infra |-> FALSE, reset_meanwhile |-> FALSE]

\* streak: messages judged off-topic in a row; crossings: times the blocked flag
\* went from false to true; visited: the onboarding states the user has been in
NoHist == [streak |-> 0, crossings |-> 0, visited |-> {}]

InitFunnel ==
    /\ parents = [u \in Users |-> NewParent]
    /\ children = [u \in Users |-> 0]
    /\ msg = [u \in Users |-> [s \in Slots |-> NoMsg]]
    /\ blockNotes = [u \in Users |-> 0]
    /\ hist = [u \in Users |-> NoHist]
    /\ msgs = [received |-> 0, overlapping |-> 0, unblocks |-> 0]

\* no function call under study
NoCalc == [fn |-> "none"]

\* the event loop at rest
NoLoop == [owner |-> NoVal,
           at |-> [u \in Users |-> "none"],
           day |-> [u \in Users |-> 0],
           attempt |-> [u \in Users |-> 0],
           inbox |-> [u \in Users |-> "none"],
           received |-> 0]

\* no text message is in the guarded body of handle_text_message
\* no dialog row read: history is what load_dialog returned last, the user
\* the rows were saved for and their number
NoHistory == [owner |-> NoVal, rows |-> 0]

NoRun == [pc |-> "idle", returned |-> "none", caught |-> FALSE, reported |-> FALSE,
          window |-> 0, apology |-> FALSE, escaped |-> FALSE, history |-> NoHistory]

\* no book_slot call is creating an event; created counts the events the
\* last call's insert requests left on the calendar
NoInsert == [pc |-> "idle", user |-> NoVal, slot |-> NoVal, attempt |-> 0,
             created |-> 0, success |-> FALSE]

InitMore == /\ run = [u \in Users |-> NoRun]
            /\ dialog = [u \in Users |-> 0]
            /\ ins = NoInsert
            /\ again = [u \in Users |-> NoTask]

InitRest == /\ calc = NoCalc
            /\ loop = NoLoop
            /\ InitMore

InitExt == InitFunnel /\ InitRest

\* the state after construction of the booking dialog and the scheduler
InitBooking ==
    /\ calendar = {}
    /\ nextEventId = 1
    /\ ledger = [e \in EventIds |-> "none"]
    /\ lessons = << >>
    /\ fsmState = [u \in Users |-> FsmIdle]
    /\ fsmData = [u \in Users |-> EmptyData]
    /\ task = [u \in Users |-> NoTask]
    /\ outbox = [user |-> NoVal, text |-> "none", reason |-> "none"]
    /\ commands = 0
    /\ now = 0
    /\ ticks = 0
    /\ rjob = NoJob("none")
    /\ cjob = [c \in CJobs |-> NoCJob]
    /\ delivered = NoneDelivered

Init ==
    /\ InitBooking
    /\ InitExt

(***************************************************************************)
(* Booking flow: cmd_book / menu_book, slot selection, confirmation.       *)
(***************************************************************************)
\* cmd_book and menu_book: list the free slots and enter selecting_slot
cmd_book(u) ==
    /\ Ready(u)
    /\ Command
    /\ \E okDays \in SUBSET Days :
         LET slots == get_free_slots(calendar, okDays)
         IN IF slots = << >>
            THEN /\ Says(u, "no_free_time")
                 /\ UNCHANGED fsmState
            ELSE /\ Says(u, "choose_slot")
                 /\ fsmState' = [fsmState EXCEPT ![u] = "selecting_slot"]
    /\ Returns(u)
    /\ UNCHANGED << calendar, nextEventId, ledger, lessons, fsmData >>
    /\ UNCHANGED sweepVars

\* a search that accepts every button
FindSlotAny(slots, s) == TRUE

\* the search of the chosen start in the fetched list
FindSlot(slots, s) == s \in SeqToSet(slots)

\* process_slot_selection: re-fetch the free slots (okDays are the days whose
\* fetch succeeded) and look the chosen one up
process_slot_selection(u, s, okDays) ==
    /\ Ready(u)
    /\ fsmState[u] = "selecting_slot"
    /\ LET slots == get_free_slots(calendar, okDays)
       IN IF ~FindSlot(slots, s)
          THEN /\ Says(u, "slot_gone")
               /\ Cleared(u)
          ELSE /\ fsmData' = [fsmData EXCEPT ![u].selected_slot = s]
               /\ Says(u, "confirm_booking_prompt")
               /\ fsmState' = [fsmState EXCEPT ![u] = "confirming"]
    /\ Returns(u)
    /\ UNCHANGED << calendar, nextEventId, ledger, lessons >>
    /\ UNCHANGED << commands, sweepVars >>

\* events the calls of book_slot now in progress may still insert
PendingInserts == Cardinality({ v \in Users : task[v].pc = "book_slot" })

\* process_booking_confirmation up to the call of book_slot
process_booking_confirmation(u) ==
    /\ Ready(u)
    /\ fsmState[u] = "confirming"
    /\ IF fsmData[u].selected_slot = NoVal
       THEN /\ Says(u, "session_expired")
            /\ Cleared(u)
            /\ Returns(u)
       ELSE \/ /\ nextEventId + PendingInserts <= MaxEvents
               /\ Says(u, "progress")
               /\ task' = [task EXCEPT ![u] =
                             [NoTask EXCEPT !.kind = "confirm_booking", !.pc = "book_slot",
                                            !.slot = fsmData[u].selected_slot]]
               /\ UNCHANGED << fsmState, fsmData >>
            \/ \* the try body raises: the except branch reports and clears
               /\ Says(u, "error")
               /\ Cleared(u)
               /\ Returns(u)
    /\ UNCHANGED << calendar, nextEventId, ledger, lessons >>
    /\ UNCHANGED << commands, sweepVars >>


(***************************************************************************)
(* BookingService.book_slot.  Its calendar and ledger calls are            *)
(* synchronous: from the deletion of the prior event to the ledger write   *)
(* nothing else runs.  The lesson-table part awaits and is a later step.   *)
(***************************************************************************)
\* delete_event: True iff the delete request succeeded (a missing event is an error)
delete_event(cal, eid, callOk) == callOk /\ \E ev \in cal : ev.id = eid

WithoutEvent(cal, eid) == { ev \in cal : ev.id # eid }

\* book_slot returned success False: the handler clears the state and quotes the error
BookingFailed(u, reason) ==
    /\ Cleared(u)
    /\ SaysWhy(u, IF task[u].kind = "confirm_reschedule" THEN "reschedule_failed"
                                                          ELSE "booking_failed", reason)
    /\ Returns(u)

\* a result that names the prior event whether or not it was deleted
cancelled_event_id_requested(deleted, cid) == cid

\* book_slot lines 69-78: cancelled_event is set only when delete_event returned True
cancelled_event_id(deleted, cid) == IF deleted THEN cid ELSE NoVal

\* book_slot lines 68-152: prior event, availability re-check, insert, ledger row
book_slot_sync(u) ==
    /\ task[u].pc = "book_slot"
    /\ \E delOk, listOk, insertOk, sheetOk \in BOOLEAN :
         LET cid == task[u].cancel_event_id
             s == task[u].slot
             e == s + SLOT_DURATION
             deleted == cid # NoVal /\ delete_event(calendar, cid, delOk)
             cal1 == IF deleted THEN WithoutEvent(calendar, cid) ELSE calendar
             cancelled == cancelled_event_id(deleted, cid)
             eid == nextEventId
         IN IF ~is_slot_available(cal1, s, e, listOk)
            THEN /\ calendar' = cal1
                 /\ BookingFailed(u, "slot_taken")
                 /\ UNCHANGED << nextEventId, ledger >>
            ELSE IF ~insertOk
            THEN /\ calendar' = cal1
                 /\ BookingFailed(u, "error")
                 /\ UNCHANGED << nextEventId, ledger >>
            ELSE /\ calendar' = cal1 \cup {[id |-> eid, start |-> s, end |-> e, owner |-> u]}
                 /\ nextEventId' = eid + 1
                 /\ ledger' = IF sheetOk
                              THEN [ledger EXCEPT ![eid] =
                                      IF cid = NoVal THEN "created" ELSE "rescheduled"]
                              ELSE ledger
                 /\ task' = [task EXCEPT ![u].pc = "persist", ![u].event_id = eid,
                                         ![u].cancelled_event = cancelled]
                 /\ UNCHANGED << fsmState, fsmData, outbox >>
    /\ UNCHANGED lessons
    /\ UNCHANGED << commands, sweepVars >>

\* update_booking_status: rewrites the status of the row of the event, if there is one
update_booking_status(led, eid, status, callOk) ==
    IF callOk /\ led[eid] # "none" THEN [led EXCEPT ![eid] = status] ELSE led

\* book_slot lines 154-212 (lesson row; a failure is logged and success is returned),
\* then the rest of the confirm handler: ledger note of the old row, clear, reply
book_slot_persist(u) ==
    /\ task[u].pc = "persist"
    /\ \E dbOk, sheetOk \in BOOLEAN :
         /\ lessons' = IF dbOk
                       THEN Append(lessons, NewLesson(u, task[u].slot, task[u].event_id))
                       ELSE lessons
         /\ Returns(u)
         /\ ledger' = IF task[u].kind = "confirm_reschedule"
                      THEN update_booking_status(ledger, task[u].cancel_event_id,
                                                 "rescheduled", sheetOk)
                      ELSE ledger
    /\ Cleared(u)
    /\ Says(u, IF task[u].kind = "confirm_reschedule" THEN "reschedule_ok"
                                                       ELSE "booking_ok")
    /\ UNCHANGED << calendar, nextEventId >>
    /\ UNCHANGED << commands, sweepVars >>

(***************************************************************************)
(* Terminal callbacks without a state filter.                              *)
(***************************************************************************)
Terminal(u, text) ==
    /\ Ready(u)
    /\ Cleared(u)
    /\ Says(u, text)
    /\ Returns(u)
    /\ UNCHANGED << calendar, nextEventId, ledger, lessons >>
    /\ UNCHANGED << commands, sweepVars >>

back_to_menu(u) == Terminal(u, "main_menu")
process_cancel_booking(u) == Terminal(u, "booking_cancelled")
process_cancel_reschedule(u) == Terminal(u, "reschedule_cancelled")
process_cancel_cancel(u) == Terminal(u, "cancel_cancelled")


(***************************************************************************)
(* Reschedule flow.                                                        *)
(***************************************************************************)
\* cmd_reschedule / cmd_cancel: list the user's events and keep them in the FSM data
ListEvents(u, nextState) ==
    /\ Ready(u)
    /\ Command
    /\ \E listOk \in BOOLEAN :
         LET events == get_user_events(calendar, u)
         IN IF ~listOk
            THEN /\ Says(u, "events_error")
                 /\ UNCHANGED << fsmState, fsmData >>
            ELSE IF events = {}
            THEN /\ Says(u, "no_bookings")
                 /\ UNCHANGED << fsmState, fsmData >>
            ELSE /\ Says(u, "choose_event")
                 /\ fsmData' = [fsmData EXCEPT ![u].events = events]
                 /\ fsmState' = [fsmState EXCEPT ![u] = nextState]
    /\ Returns(u)
    /\ UNCHANGED << calendar, nextEventId, ledger, lessons >>
    /\ UNCHANGED sweepVars

cmd_reschedule(u) == ListEvents(u, "selecting_event_to_reschedule")

\* process_event_selection_for_reschedule
process_event_selection_for_reschedule(u, ev) ==
    /\ Ready(u)
    /\ fsmState[u] = "selecting_event_to_reschedule"
    /\ \E okDays \in SUBSET Days :
         IF ev \notin fsmData[u].events
         THEN /\ Says(u, "event_not_found")
              /\ Cleared(u)
         ELSE IF get_free_slots(calendar, okDays) = << >>
         THEN /\ Says(u, "no_free_time")
              /\ Cleared(u)
         ELSE /\ Says(u, "choose_new_slot")
              /\ fsmData' = [fsmData EXCEPT ![u].selected_event = ev]
              /\ fsmState' = [fsmState EXCEPT ![u] = "rescheduling"]
    /\ Returns(u)
    /\ UNCHANGED << calendar, nextEventId, ledger, lessons >>
    /\ UNCHANGED << commands, sweepVars >>

\* process_slot_selection_for_reschedule
process_slot_selection_for_reschedule(u, s, okDays) ==
    /\ Ready(u)
    /\ fsmState[u] = "rescheduling"
    /\ IF fsmData[u].selected_event = NoVal
       THEN /\ Says(u, "session_expired")
            /\ Cleared(u)
       ELSE LET slots == get_free_slots(calendar, okDays)
            IN IF ~FindSlot(slots, s)
               THEN /\ Says(u, "slot_gone")
                    /\ Cleared(u)
               ELSE /\ fsmData' = [fsmData EXCEPT ![u].new_slot = s]
                    /\ Says(u, "confirm_reschedule_prompt")
                    /\ fsmState' = [fsmState EXCEPT ![u] = "confirming"]
    /\ Returns(u)
    /\ UNCHANGED << calendar, nextEventId, ledger, lessons >>
    /\ UNCHANGED << commands, sweepVars >>

\* process_reschedule_confirmation up to the call of book_slot
process_reschedule_confirmation(u) ==
    /\ Ready(u)
    /\ fsmState[u] = "confirming"
    /\ IF fsmData[u].selected_event = NoVal \/ fsmData[u].new_slot = NoVal
       THEN /\ Says(u, "session_expired")
            /\ Cleared(u)
            /\ Returns(u)
       ELSE \/ /\ nextEventId + PendingInserts <= MaxEvents
               /\ Says(u, "progress")
               /\ task' = [task EXCEPT ![u] =
                             [NoTask EXCEPT !.kind = "confirm_reschedule", !.pc = "book_slot",
                                            !.slot = fsmData[u].new_slot,
                                            !.cancel_event_id = fsmData[u].selected_event]]
               /\ UNCHANGED << fsmState, fsmData >>
            \/ /\ Says(u, "error")
               /\ Cleared(u)
               /\ Returns(u)
    /\ UNCHANGED << calendar, nextEventId, ledger, lessons >>
    /\ UNCHANGED << commands, sweepVars >>

(***************************************************************************)
(* Cancel flow and BookingService.cancel_booking.                          *)
(***************************************************************************)
cmd_cancel(u) == ListEvents(u, "selecting_event_to_cancel")

\* process_event_selection_for_cancel
process_event_selection_for_cancel(u, ev) ==
    /\ Ready(u)
    /\ fsmState[u] = "selecting_event_to_cancel"
    /\ IF ev \notin fsmData[u].events
       THEN /\ Says(u, "event_not_found")
            /\ Cleared(u)
       ELSE /\ Says(u, "confirm_cancel_prompt")
            /\ fsmData' = [fsmData EXCEPT ![u].selected_event = ev]
            /\ fsmState' = [fsmState EXCEPT ![u] = "confirming"]
    /\ Returns(u)
    /\ UNCHANGED << calendar, nextEventId, ledger, lessons >>
    /\ UNCHANGED << commands, sweepVars >>

\* process_cancel_confirmation up to the call of cancel_booking
process_cancel_confirmation(u) ==
    /\ Ready(u)
    /\ fsmState[u] = "confirming"
    /\ IF fsmData[u].selected_event = NoVal
       THEN /\ Says(u, "session_expired")
            /\ Cleared(u)
            /\ Returns(u)
       ELSE \/ /\ Says(u, "progress")
               /\ task' = [task EXCEPT ![u] =
                             [NoTask EXCEPT !.kind = "confirm_cancel", !.pc = "cancel_booking",
                                            !.cancel_event_id = fsmData[u].selected_event]]
               /\ UNCHANGED << fsmState, fsmData >>
            \/ /\ Says(u, "error")
               /\ Cleared(u)
               /\ Returns(u)
    /\ UNCHANGED << calendar, nextEventId, ledger, lessons >>
    /\ UNCHANGED << commands, sweepVars >>

\* cancel_booking lines 231-248: delete the event, then note it in the ledger;
\* on a failed deletion the handler clears the state and reports the failure
cancel_booking_sync(u) ==
    /\ task[u].pc = "cancel_booking"
    /\ \E delOk, sheetOk \in BOOLEAN :
         LET eid == task[u].cancel_event_id
         IN IF ~delete_event(calendar, eid, delOk)
            THEN /\ Cleared(u)
                 /\ Says(u, "cancel_failed")
                 /\ Returns(u)
                 /\ UNCHANGED << calendar, ledger >>
            ELSE /\ calendar' = WithoutEvent(calendar, eid)
                 /\ ledger' = update_booking_status(ledger, eid, "cancelled", sheetOk)
                 /\ task' = [task EXCEPT ![u].pc = "cancel_db", ![u].cancelled_event = eid]
                 /\ UNCHANGED << fsmState, fsmData, outbox >>
    /\ UNCHANGED << nextEventId, lessons >>
    /\ UNCHANGED << commands, sweepVars >>

\* the lesson rows referencing an event
LessonsOfEvent(eid) == { i \in 1..Len(lessons) : lessons[i].event_id = eid }

\* an update that closes the lesson as held
cancel_lesson_db_completed(ls, ids) ==
    [i \in 1..Len(ls) |-> IF i \in ids THEN [ls[i] EXCEPT !.status = "COMPLETED"] ELSE ls[i]]

\* cancel_lesson_db: UPDATE ... SET status = CANCELLED WHERE id = lesson_id
cancel_lesson_db(ls, ids) ==
    [i \in 1..Len(ls) |-> IF i \in ids THEN [ls[i] EXCEPT !.status = "CANCELLED"] ELSE ls[i]]

\* cancel_booking lines 250-270 (lesson status; a failure is logged and True is
\* returned), then the rest of the handler: clear, reply
cancel_booking_db(u) ==
    /\ task[u].pc = "cancel_db"
    /\ \E dbOk \in BOOLEAN :
         lessons' = IF dbOk
                    THEN cancel_lesson_db(lessons, LessonsOfEvent(task[u].cancel_event_id))
                    ELSE lessons
    /\ Cleared(u)
    /\ Says(u, "cancel_ok")
    /\ Returns(u)
    /\ UNCHANGED << calendar, nextEventId, ledger >>
    /\ UNCHANGED << commands, sweepVars >>

(***************************************************************************)
(* Process restart: the dispatcher is built with MemoryStorage, so the FSM *)
(* storage starts empty; handlers in progress are gone.  The calendar, the *)
(* ledger and the lesson table are remote and stay.                        *)
(***************************************************************************)
Restart ==
    /\ fsmState' = [u \in Users |-> FsmIdle]
    /\ fsmData' = [u \in Users |-> EmptyData]
    /\ task' = [u \in Users |-> NoTask]
    /\ UNCHANGED << calendar, nextEventId, ledger, lessons, outbox >>
    /\ UNCHANGED << commands, sweepVars >>

(***************************************************************************)
(* Scheduler.  The reminder job runs check_and_send_reminders, which ends  *)
(* by calling check_completed_lessons; the completion job runs             *)
(* check_completed_lessons on its own.  Each job has at most one instance  *)
(* running.  Every await of a job is a step; the clock may advance and     *)
(* dialog handlers may run between two steps.  The statements the jobs     *)
(* send to the lesson table succeed.                                       *)
(***************************************************************************)
convFrame == << calendar, nextEventId, ledger, fsmState, fsmData, task, outbox, commands,
               extVars >>

\* the clock advances
Tick ==
    /\ ticks < MaxTicks
    /\ now' = now + TickStep
    /\ ticks' = ticks + 1
    /\ UNCHANGED << convFrame, lessons, rjob, cjob, delivered >>

\* scheduled_utc.astimezone(MOSCOW_TZ), and datetime.now(MOSCOW_TZ) from the UTC clock
utc_to_moscow(t) == t + MSK_OFFSET

\* the 24h window test without its flag gate
in_window_24h_unflagged(l, nowUtc) ==
    LET now_msk == utc_to_moscow(nowUtc)
        scheduled_msk == utc_to_moscow(l.scheduled_at)
    IN /\ now_msk + WINDOW_24H_START <= scheduled_msk
       /\ scheduled_msk <= now_msk + WINDOW_24H_END

in_window_24h(l, nowUtc) ==
    LET now_msk == utc_to_moscow(nowUtc)
        scheduled_msk == utc_to_moscow(l.scheduled_at)
    IN /\ now_msk + WINDOW_24H_START <= scheduled_msk
       /\ scheduled_msk <= now_msk + WINDOW_24H_END
       /\ ~l.reminder_24h_sent

\* a 1h window without its bounds
in_window_1h_exclusive(l, nowUtc) ==
    LET now_msk == utc_to_moscow(nowUtc)
        scheduled_msk == utc_to_moscow(l.scheduled_at)
    IN /\ now_msk + WINDOW_1H_START < scheduled_msk
       /\ scheduled_msk < now_msk + WINDOW_1H_END
       /\ ~l.reminder_1h_sent

in_window_1h(l, nowUtc) ==
    LET now_msk == utc_to_moscow(nowUtc)
        scheduled_msk == utc_to_moscow(l.scheduled_at)
    IN /\ now_msk + WINDOW_1H_START <= scheduled_msk
       /\ scheduled_msk <= now_msk + WINDOW_1H_END
       /\ ~l.reminder_1h_sent

\* the planned lessons of the pre-filter of check_and_send_reminders
planned_lessons(ls, nowUtc) ==
    { i \in 1..Len(ls) : ls[i].status = "PLANNED" /\ ls[i].scheduled_at <= nowUtc + WIDE_END }

\* lessons_to_process: a lesson in both windows gets the 24h reminder only
lessons_to_process(ls, nowUtc) ==
    { [id |-> i, kind |-> "24h"] :
        i \in { j \in planned_lessons(ls, nowUtc) : in_window_24h(ls[j], nowUtc) } }
    \cup
    { [id |-> i, kind |-> "1h"] :
        i \in { j \in planned_lessons(ls, nowUtc) :
                  ~in_window_24h(ls[j], nowUtc) /\ in_window_1h(ls[j], nowUtc) } }

\* check_and_send_reminders lines 31-89: select the lessons, build the sends
reminders_select ==
    /\ rjob.pc = "idle"
    /\ LET batch == lessons_to_process(lessons, now)
       IN rjob' = IF batch = {}
                  THEN NoJob("nothing_to_send")
                  ELSE [pc |-> "sending", batch |-> batch, pending |-> batch, log |-> rjob.log]
    /\ UNCHANGED << convFrame, lessons, now, ticks, cjob, delivered >>

\* send_reminder_message: a failed bot.send_message is logged and the coroutine
\* returns normally
send_reminder_message(item) ==
    /\ rjob.pc = "sending"
    /\ item \in rjob.pending
    /\ \E sendOk \in BOOLEAN :
         delivered' = IF sendOk
                      THEN [delivered EXCEPT ![item.id][item.kind] = @ + 1]
                      ELSE delivered
    /\ rjob' = [rjob EXCEPT !.pending = @ \ {item}]
    /\ UNCHANGED << convFrame, lessons, now, ticks, cjob >>

\* the flag updates of lines 93-115: every result that is not an exception counts
SetReminderFlags(ls, batch) ==
    [i \in 1..Len(ls) |->
       IF [id |-> i, kind |-> "24h"] \in batch THEN [ls[i] EXCEPT !.reminder_24h_sent = TRUE]
       ELSE IF [id |-> i, kind |-> "1h"] \in batch THEN [ls[i] EXCEPT !.reminder_1h_sent = TRUE]
       ELSE ls[i]]

\* check_and_send_reminders lines 91-115: gather has returned, set and commit the flags
reminders_commit ==
    /\ rjob.pc = "sending"
    /\ rjob.pending = {}
    /\ lessons' = SetReminderFlags(lessons, rjob.batch)
    /\ rjob' = [rjob EXCEPT !.pc = "completion", !.log = "flags_updated"]
    /\ UNCHANGED << convFrame, now, ticks, cjob, delivered >>

\* a cutoff that forgets the hour
cutoff_time_now(nowUtc) == nowUtc

\* cutoff_time of check_completed_lessons
cutoff_time(nowUtc) == nowUtc - COMPLETED_AFTER

\* the rows check_completed_lessons selects
IsOverdue(l, cutoff) == l.status = "PLANNED" /\ l.scheduled_at <= cutoff

RECURSIVE OverdueFrom(_, _, _)
OverdueFrom(i, ls, cutoff) ==
    IF i > Len(ls) THEN << >>
    ELSE (IF IsOverdue(ls[i], cutoff) THEN << i >> ELSE << >>) \o OverdueFrom(i + 1, ls, cutoff)

completed_lessons(ls, nowUtc) == OverdueFrom(1, ls, cutoff_time(nowUtc))

\* mark_lesson_completed: UPDATE ... SET status = COMPLETED WHERE id = lesson_id
mark_lesson_completed(ls, id) ==
    [i \in 1..Len(ls) |-> IF i = id THEN [ls[i] EXCEPT !.status = "COMPLETED"] ELSE ls[i]]

\* check_completed_lessons called by c returns
CompletionReturns(c) ==
    /\ cjob' = [cjob EXCEPT ![c] = NoCJob]
    /\ rjob' = IF c = "reminders" THEN NoJob(rjob.log) ELSE rjob

\* check_completed_lessons lines 188-208: select the overdue planned lessons
check_completed_lessons(c) ==
    /\ cjob[c].pc = "idle"
    /\ c = "reminders" => rjob.pc = "completion"
    /\ LET todo == completed_lessons(lessons, now)
       IN IF todo = << >>
          THEN CompletionReturns(c)
          ELSE /\ cjob' = [cjob EXCEPT ![c] = [pc |-> "marking", todo |-> todo, pos |-> 1]]
               /\ UNCHANGED rjob
    /\ UNCHANGED << convFrame, lessons, now, ticks, delivered >>

\* check_completed_lessons lines 210-217: one turn of the loop
complete_next_lesson(c) ==
    /\ cjob[c].pc = "marking"
    /\ lessons' = mark_lesson_completed(lessons, cjob[c].todo[cjob[c].pos])
    /\ IF cjob[c].pos = Len(cjob[c].todo)
       THEN CompletionReturns(c)
       ELSE /\ cjob' = [cjob EXCEPT ![c].pos = @ + 1]
            /\ UNCHANGED rjob
    /\ UNCHANGED << convFrame, now, ticks, delivered >>

Next ==
    \/ \E u \in Users : cmd_book(u)
    \/ \E u \in Users, s \in Candidates, okDays \in SUBSET Days :
         process_slot_selection(u, s, okDays)
    \/ \E u \in Users : process_booking_confirmation(u)
    \/ \E u \in Users : book_slot_sync(u)
    \/ \E u \in Users : book_slot_persist(u)
    \/ \E u \in Users : back_to_menu(u)
    \/ \E u \in Users : process_cancel_booking(u)
    \/ \E u \in Users : process_cancel_reschedule(u)
    \/ \E u \in Users : process_cancel_cancel(u)
    \/ \E u \in Users : cmd_reschedule(u)
    \/ \E u \in Users, ev \in EventIds : process_event_selection_for_reschedule(u, ev)
    \/ \E u \in Users, s \in Candidates, okDays \in SUBSET Days :
         process_slot_selection_for_reschedule(u, s, okDays)
    \/ \E u \in Users : process_reschedule_confirmation(u)
    \/ \E u \in Users : cmd_cancel(u)
    \/ \E u \in Users, ev \in EventIds : process_event_selection_for_cancel(u, ev)
    \/ \E u \in Users : process_cancel_confirmation(u)
    \/ \E u \in Users : cancel_booking_sync(u)
    \/ \E u \in Users : cancel_booking_db(u)
    \/ Restart

Spec == Init /\ [][Next]_vars

(***************************************************************************)
(* The scheduler next to users cancelling their bookings.  It starts from  *)
(* booked lessons on non-overlapping slots, some users about to confirm a  *)
(* cancellation, and the clock near a reminder window or the completion    *)
(* cutoff of the first slot.                                               *)
(***************************************************************************)
FirstLessonAt == to_utc_naive(DayStart(1))

SweepStarts == { FirstLessonAt - WINDOW_24H_END,
                 FirstLessonAt - WINDOW_1H_END,
                 FirstLessonAt + COMPLETED_AFTER - 2 * TickStep }

\* the slot booked by user u: consecutive slots from the start of the first day
LessonSlot(u) == DayStart(1) + (u - 1) * SLOT_DURATION

\* the state after process_event_selection_for_cancel chose event ev
CancelChosen(cal, u, ev) ==
    [EmptyData EXCEPT !.events = get_user_events(cal, u), !.selected_event = ev]

InitSweep ==
    /\ calendar = { [id |-> u, start |-> LessonSlot(u), end |-> LessonSlot(u) + SLOT_DURATION,
                     owner |-> u] : u \in Users }
    /\ lessons = [u \in Users |-> NewLesson(u, LessonSlot(u), u)]
    /\ nextEventId = NumUsers + 1
    /\ ledger = [e \in EventIds |-> IF e \in Users THEN "created" ELSE "none"]
    /\ \E chosen \in [Users -> EventIds \cup {NoVal}] :
         /\ \A u \in Users : chosen[u] # NoVal => chosen[u] \in get_user_events(calendar, u)
         /\ fsmState = [u \in Users |-> IF chosen[u] = NoVal THEN FsmIdle ELSE "confirming"]
         /\ fsmData = [u \in Users |-> IF chosen[u] = NoVal THEN EmptyData
                                        ELSE CancelChosen(calendar, u, chosen[u])]
    /\ task = [u \in Users |-> NoTask]
    /\ outbox = [user |-> NoVal, text |-> "none", reason |-> "none"]
    /\ commands = 0
    /\ now \in SweepStarts
    /\ ticks = 0
    /\ rjob = NoJob("none")
    /\ cjob = [c \in CJobs |-> NoCJob]
    /\ delivered = NoneDelivered
    /\ InitExt

NextSweep ==
    \/ Tick
    \/ reminders_select
    \/ \E item \in rjob.pending : send_reminder_message(item)
    \/ reminders_commit
    \/ \E c \in CJobs : check_completed_lessons(c)
    \/ \E c \in CJobs : complete_next_lesson(c)
    \/ \E u \in Users : process_cancel_confirmation(u)
    \/ \E u \in Users : cancel_booking_sync(u)
    \/ \E u \in Users : cancel_booking_db(u)

SpecSweep == InitSweep /\ [][NextSweep]_vars

(***************************************************************************)
(* Sales funnel: handle_text_message with its moderation guard, the end of *)
(* onboarding, and the operator's unblock.  Every await of a handler that  *)
(* matters to the profile is a step.                                       *)
(***************************************************************************)
\* what the funnel handlers leave alone, apart from outbox and the FSM storage
funnelFrame == << calendar, nextEventId, ledger, lessons, task, commands,
                  now, ticks, rjob, cjob, delivered, calc, loop, moreVars >>

\* the funnel handlers of different users share no row; the model lets the
\* handlers of one user run at a time
OthersIdle(u) == \A v \in Users \ {u} : \A s \in Slots : msg[v][s].pc = "idle"
UserIdle(u) == \A s \in Slots : msg[u][s].pc = "idle"
FunnelIdle == \A v \in Users : UserIdle(v)

\* a free handler slot of the user, the lowest first
FreeSlot(u, s) == /\ msg[u][s].pc = "idle"
                  /\ \A r \in Slots : r < s => msg[u][r].pc # "idle"

\* updates (text messages and commands) are received while the budget lasts
Update(s) == /\ msgs.received + commands < MaxMessages
             /\ s > 1 => msgs.overlapping < MaxOverlaps
             /\ msgs' = [msgs EXCEPT !.received = @ + 1,
                                     !.overlapping = @ + (IF s > 1 THEN 1 ELSE 0)]

\* the handler of the user's text message returns
MsgReturns(u, s) == msg' = [msg EXCEPT ![u][s] = NoMsg]

\* what a message is to the router: a recognised booking intent, a keyword with
\* a template, or anything else
MsgKinds == {"intent", "template", "other"}

\* one answer of the classifier call: "да", "нет", an error, an SSL error
Outcomes == {"yes", "no", "error", "ssl"}
Errors == {"error", "ssl"}

\* a message judged relevant or answered without the classifier
JudgedRelevant(u) == hist' = [hist EXCEPT ![u].streak = 0]

\* start_booking_scenario: the handler calls cmd_book
start_booking_scenario(u) ==
    \E okDays \in SUBSET Days :
       LET slots == get_free_slots(calendar, okDays)
       IN IF slots = << >>
          THEN /\ Says(u, "no_free_time")
               /\ UNCHANGED fsmState
          ELSE /\ Says(u, "choose_slot")
               /\ fsmState' = [fsmState EXCEPT ![u] = "selecting_slot"]

\* handle_text_message lines 117-189: the guards, then intent and template
handle_text_message(u, s, kind) ==
    /\ OthersIdle(u)
    /\ FreeSlot(u, s)
    /\ Ready(u)
    /\ Update(s)
    /\ IF parents[u].is_blocked
       THEN UNCHANGED << msg, hist, outbox, fsmState >>
       ELSE IF ~parents[u].onboarding_completed_at
       THEN /\ Says(u, "invite_onboarding")
            /\ UNCHANGED << msg, hist, fsmState >>
       ELSE IF kind = "intent"
       THEN /\ start_booking_scenario(u)
            /\ JudgedRelevant(u)
            /\ UNCHANGED msg
       ELSE IF kind = "template"
       THEN /\ Says(u, "template")
            /\ JudgedRelevant(u)
            /\ UNCHANGED << msg, fsmState >>
       ELSE /\ msg' = [msg EXCEPT ![u][s] = [NoMsg EXCEPT !.pc = "classify", !.kind = kind,
                                                       !.call = 1, !.attempt = 1]]
            /\ UNCHANGED << hist, outbox, fsmState >>
    /\ UNCHANGED << parents, children, blockNotes, fsmData, funnelFrame >>

\* a classifier that takes a failure for "no"
is_query_relevant_ai_strict(result) == result = "yes"

\* is_query_relevant_ai: no client, or the call raised after its retries, is
\* True; otherwise "да" in answer
is_query_relevant_ai(result) ==
    IF result \in {"unavailable", "raised"} THEN TRUE ELSE result = "yes"

\* one attempt of _invoke_classifier under async_retry, inside
\* is_query_relevant_with_layout_correction; client is whether
\* get_gigachat_client returned a client for this call, needsFix whether the
\* text asks for the layout correction and the correction changes it
invoke_classifier(u, s, client, outcome, needsFix) ==
    /\ msg[u][s].pc = "classify"
    /\ msg[u][s].attempt > 1 => client
    /\ IF client /\ outcome \in Errors /\ msg[u][s].attempt < MAX_ATTEMPTS
       THEN msg' = [msg EXCEPT ![u][s].attempt = @ + 1]
       ELSE LET result == IF ~client THEN "unavailable"
                          ELSE IF outcome \in Errors THEN "raised" ELSE outcome
                failed == result \in {"unavailable", "raised"}
            IN IF is_query_relevant_ai(result)
               THEN msg' = [msg EXCEPT ![u][s].pc = "answer", ![u][s].infra = failed]
               ELSE IF msg[u][s].call = 1 /\ needsFix
               THEN msg' = [msg EXCEPT ![u][s].call = 2, ![u][s].attempt = 1, ![u][s].infra = failed]
               ELSE msg' = [msg EXCEPT ![u][s].pc = "increment", ![u][s].infra = failed]
    /\ UNCHANGED << parents, children, blockNotes, hist, msgs, outbox, fsmState, fsmData,
                    funnelFrame >>

\* handle_text_message lines 228-270: the relevant message is answered
answer_relevant(u, s) ==
    /\ msg[u][s].pc = "answer"
    /\ Says(u, "answer")
    /\ JudgedRelevant(u)
    /\ MsgReturns(u, s)
    /\ UNCHANGED << parents, children, blockNotes, msgs, fsmState, fsmData, funnelFrame >>

\* increment_irrelevant_count lines 124-128: the profile row is read
increment_irrelevant_count_select(u, s) ==
    /\ msg[u][s].pc = "increment"
    /\ msg' = [msg EXCEPT ![u][s].pc = "commit", ![u][s].read = parents[u].irrelevant_count]
    /\ UNCHANGED << parents, children, blockNotes, hist, msgs, outbox, fsmState, fsmData,
                    funnelFrame >>

\* increment_irrelevant_count lines 130-154: the counter read plus one is written
increment_irrelevant_count(u, s) ==
    /\ msg[u][s].pc = "commit"
    /\ parents' = [parents EXCEPT ![u].irrelevant_count = msg[u][s].read + 1]
    /\ msg' = [msg EXCEPT ![u][s].pc = "escalate", ![u][s].new_count = msg[u][s].read + 1]
    /\ hist' = [hist EXCEPT ![u].streak = @ + 1]
    /\ UNCHANGED << children, blockNotes, msgs, outbox, fsmState, fsmData, funnelFrame >>

\* an escalation that leaves the profile as it is
block_user_skipped(ps, u) == ps

\* block_user: UPDATE ... SET is_blocked = True
block_user(ps, u) == [ps EXCEPT ![u].is_blocked = TRUE]

\* handle_text_message lines 199-215: nudge, hand-off offer, or block
escalate(u, s) ==
    /\ msg[u][s].pc = "escalate"
    /\ IF msg[u][s].new_count = 1
       THEN /\ Says(u, "nudge")
            /\ MsgReturns(u, s)
            /\ UNCHANGED << parents, hist >>
       ELSE IF msg[u][s].new_count < IRRELEVANT_QUERY_LIMIT
       THEN /\ Says(u, "offer_manager")
            /\ MsgReturns(u, s)
            /\ UNCHANGED << parents, hist >>
       ELSE /\ parents' = block_user(parents, u)
            /\ hist' = [hist EXCEPT ![u].crossings =
                                      IF parents[u].is_blocked THEN @ ELSE @ + 1]
            /\ msg' = [msg EXCEPT ![u][s].pc = "announce"]
            /\ UNCHANGED outbox
    /\ UNCHANGED << children, blockNotes, msgs, fsmState, fsmData, funnelFrame >>

\* handle_text_message lines 216-219: the user is told a manager was called
announce_block(u, s) ==
    /\ msg[u][s].pc = "announce"
    /\ Says(u, "manager_called")
    /\ msg' = [msg EXCEPT ![u][s].pc = "notify"]
    /\ UNCHANGED << parents, children, blockNotes, hist, msgs, fsmState, fsmData,
                    funnelFrame >>

\* notify_admin_of_block, then the handler returns
notify_admin_of_block(u, s) ==
    /\ msg[u][s].pc = "notify"
    /\ blockNotes' = [blockNotes EXCEPT ![u] = @ + 1]
    /\ MsgReturns(u, s)
    /\ UNCHANGED << parents, children, hist, msgs, outbox, fsmState, fsmData, funnelFrame >>

\* an unblock that keeps the counter
unblocked_only(p) == [p EXCEPT !.is_blocked = FALSE]

\* the values of the UPDATE of unblock_and_reset
unblocked_and_reset(p) == [p EXCEPT !.is_blocked = FALSE, !.irrelevant_count = 0]

\* unblock_and_reset, run by an operator
unblock_and_reset(u) ==
    /\ msgs.unblocks < MaxUnblocks
    /\ msgs' = [msgs EXCEPT !.unblocks = @ + 1]
    /\ parents' = [parents EXCEPT ![u] = unblocked_and_reset(@)]
    /\ hist' = [hist EXCEPT ![u].streak = 0]
    /\ msg' = [msg EXCEPT ![u] = [r \in Slots |->
                                    [msg[u][r] EXCEPT !.reset_meanwhile = (msg[u][r].pc # "idle")]]]
    /\ UNCHANGED << children, blockNotes, outbox, fsmState, fsmData, funnelFrame >>

\* finish_onboarding lines 185-231: the answers are read and the child row is
\* added and committed; an exception of add_child_profile ends the handler
finish_onboarding(u, s, childOk) ==
    /\ FunnelIdle
    /\ s = 1
    /\ Ready(u)
    /\ ~parents[u].onboarding_completed_at
    /\ children[u] < MaxChildren
    /\ IF childOk
       THEN /\ children' = [children EXCEPT ![u] = @ + 1]
            /\ msg' = [msg EXCEPT ![u][s] = [NoMsg EXCEPT !.pc = "complete_onboarding",
                                                       !.kind = "onboarding"]]
       ELSE UNCHANGED << children, msg >>
    /\ UNCHANGED << parents, blockNotes, hist, msgs, outbox, fsmState, fsmData, funnelFrame >>

\* complete_onboarding_in_db: one UPDATE of the contact fields, the answers and
\* the completion timestamp; an exception ends the handler
complete_onboarding_in_db(u, s, updateOk) ==
    /\ msg[u][s].pc = "complete_onboarding"
    /\ IF updateOk
       THEN /\ parents' = [parents EXCEPT ![u].contact = TRUE,
                                          ![u].onboarding_completed_at = TRUE]
            /\ msg' = [msg EXCEPT ![u][s].pc = "onboarded"]
       ELSE /\ MsgReturns(u, s)
            /\ UNCHANGED parents
    /\ UNCHANGED << children, blockNotes, hist, msgs, outbox, fsmState, fsmData, funnelFrame >>

\* finish_onboarding lines 242-253: the final message, then state.clear()
finish_onboarding_reply(u, s) ==
    /\ msg[u][s].pc = "onboarded"
    /\ Says(u, "onboarded")
    /\ Cleared(u)
    /\ MsgReturns(u, s)
    /\ UNCHANGED << parents, children, blockNotes, hist, msgs, funnelFrame >>

\* cmd_book_handler: /book while no text message of the user is being handled
cmd_book_handler(u) ==
    /\ UserIdle(u)
    /\ msgs.received + commands < MaxMessages
    /\ cmd_book(u)

NextFunnel ==
    \/ \E u \in Users, kind \in MsgKinds : handle_text_message(u, 1, kind)
    \/ \E u \in Users, s \in Slots, client \in BOOLEAN, outcome \in Outcomes, needsFix \in BOOLEAN :
         invoke_classifier(u, s, client, outcome, needsFix)
    \/ \E u \in Users, s \in Slots : answer_relevant(u, s)
    \/ \E u \in Users, s \in Slots : increment_irrelevant_count_select(u, s)
    \/ \E u \in Users, s \in Slots : increment_irrelevant_count(u, s)
    \/ \E u \in Users, s \in Slots : escalate(u, s)
    \/ \E u \in Users, s \in Slots : announce_block(u, s)
    \/ \E u \in Users, s \in Slots : notify_admin_of_block(u, s)
    \/ \E u \in Users : unblock_and_reset(u)
    \/ \E u \in Users, s \in Slots, childOk \in BOOLEAN : finish_onboarding(u, s, childOk)
    \/ \E u \in Users, s \in Slots, updateOk \in BOOLEAN : complete_onboarding_in_db(u, s, updateOk)
    \/ \E u \in Users, s \in Slots : finish_onboarding_reply(u, s)
    \/ \E u \in Users : cmd_book_handler(u)

SpecFunnel == Init /\ [][NextFunnel]_vars

(***************************************************************************)
(* Overlapping messages: users who finished onboarding write again before  *)
(* the previous message is answered.  The profiles start with any count    *)
(* under the limit, reached by that many off-topic messages in a row.      *)
(***************************************************************************)
InitFlood ==
    /\ InitBooking
    /\ InitRest
    /\ \E counts \in [Users -> 0 .. IRRELEVANT_QUERY_LIMIT - 1] :
          /\ parents = [u \in Users |-> [NewParent EXCEPT !.onboarding_completed_at = TRUE,
                                                          !.contact = TRUE,
                                                          !.irrelevant_count = counts[u]]]
          /\ hist = [u \in Users |-> [NoHist EXCEPT !.streak = counts[u]]]
    /\ children = [u \in Users |-> 1]
    /\ msg = [u \in Users |-> [s \in Slots |-> NoMsg]]
    /\ blockNotes = [u \in Users |-> 0]
    /\ msgs = [received |-> MaxMessages - FloodMessages, overlapping |-> 0, unblocks |-> 0]

NextFlood ==
    \/ \E u \in Users, s \in Slots, kind \in MsgKinds : handle_text_message(u, s, kind)
    \/ \E u \in Users, s \in Slots, client \in BOOLEAN, outcome \in Outcomes, needsFix \in BOOLEAN :
         invoke_classifier(u, s, client, outcome, needsFix)
    \/ \E u \in Users, s \in Slots : answer_relevant(u, s)
    \/ \E u \in Users, s \in Slots : increment_irrelevant_count_select(u, s)
    \/ \E u \in Users, s \in Slots : increment_irrelevant_count(u, s)
    \/ \E u \in Users, s \in Slots : escalate(u, s)
    \/ \E u \in Users, s \in Slots : announce_block(u, s)
    \/ \E u \in Users, s \in Slots : notify_admin_of_block(u, s)
    \/ \E u \in Users : unblock_and_reset(u)

SpecFlood == InitFlood /\ [][NextFlood]_vars

(***************************************************************************)
(* The slot and time functions on their own: the arguments are drawn in    *)
(* the initial state and each step applies one function to them.           *)
(***************************************************************************)
\* a datetime: its wall clock in minutes, whether it carries a tzinfo, and the
\* utcoffset of that tzinfo in minutes
Naive(w) == [wall |-> w, aware |-> FALSE, off |-> 0]
Aware(w, off) == [wall |-> w, aware |-> TRUE, off |-> off]

\* the instant an aware datetime denotes, in minutes of UTC
Instant(dt) == dt.wall - dt.off

\* datetime.astimezone of an aware datetime
astimezone(dt, off) == Aware(dt.wall - dt.off + off, off)

\* a conversion that drops the tzinfo and keeps the wall clock
to_utc_naive_dropping(dt) == Naive(dt.wall)

\* to_utc_naive on datetimes: a naive one is taken to be UTC already, an aware
\* one goes to Moscow, then to UTC, and loses its tzinfo
to_utc_naive_dt(dt) ==
    IF ~dt.aware THEN dt
    ELSE LET dt_moscow == astimezone(dt, MSK_OFFSET)
             dt_utc == astimezone(dt_moscow, 0)
         IN Naive(dt_utc.wall)

\* utc_naive_to_moscow: a naive datetime is given the UTC tzinfo, then moved
\* to Moscow
utc_naive_to_moscow(dt) ==
    astimezone(IF ~dt.aware THEN Aware(dt.wall, 0) ELSE dt, MSK_OFFSET)

\* the zones of the datetimes handed in: UTC, Moscow, one east, one west
Offsets == {0, MSK_OFFSET, 300, -300}
Walls == { k * TimeStep : k \in 0 .. TimeSamples }
DateTimes == { Naive(w) : w \in Walls } \cup { Aware(w, o) : w \in Walls, o \in Offsets }

\* the working day of the slot functions
WorkStart == START_HOUR * 60
WorkEnds == { 12 * 60, END_HOUR * 60 }
BusyTimes == { WorkStart + 15 * k : k \in 0 .. BusyQuarters }
BusyIntervals == { i \in [start : BusyTimes, end : BusyTimes] : i.start < i.end }
\* the sets of at most n busy intervals
RECURSIVE BusySetsUpTo(_)
BusySetsUpTo(n) ==
    IF n = 0 THEN { {} }
    ELSE LET smaller == BusySetsUpTo(n - 1)
         IN smaller \cup { B \cup {i} : B \in smaller, i \in BusyIntervals }
BusySets == BusySetsUpTo(MaxBusy)

InitPure ==
    /\ InitBooking
    /\ InitFunnel
    /\ loop = NoLoop
    /\ InitMore
    /\ \/ \E busy \in BusySets, endOfDay \in WorkEnds :
            calc = [fn |-> "slots", busy |-> busy, end_of_day |-> endOfDay,
                    scanned |-> FALSE, free_slots |-> << >>,
                    checked |-> FALSE, probe |-> 0, available |-> FALSE]
       \/ \E dt \in DateTimes :
            calc = [fn |-> "time", scheduled_at |-> dt, step |-> "given",
                    stored |-> dt, shown |-> dt, restored |-> dt]

pureFrame == << calendar, nextEventId, ledger, lessons, fsmState, fsmData, task, outbox,
                commands, now, ticks, rjob, cjob, delivered, funnelVars, loop, moreVars >>

\* get_free_slots for one day whose busy list is calc.busy
scan_free_slots ==
    /\ calc.fn = "slots"
    /\ ~calc.scanned
    /\ calc' = [calc EXCEPT !.scanned = TRUE,
                            !.free_slots = ScanDay(WorkStart, calc.end_of_day,
                                              BusySlots(calc.busy, WorkStart, calc.end_of_day))]
    /\ UNCHANGED pureFrame

\* is_slot_available for the slot starting at start
check_slot(start) ==
    /\ calc.fn = "slots"
    /\ ~calc.checked
    /\ calc' = [calc EXCEPT !.checked = TRUE, !.probe = start,
                            !.available = is_slot_available(calc.busy, start,
                                                            start + SLOT_DURATION, TRUE)]
    /\ UNCHANGED pureFrame

\* add_trial_lesson: scheduled_at is stored as to_utc_naive(scheduled_at)
store_scheduled_at ==
    /\ calc.fn = "time"
    /\ calc.step = "given"
    /\ calc' = [calc EXCEPT !.step = "stored", !.stored = to_utc_naive_dt(calc.scheduled_at)]
    /\ UNCHANGED pureFrame

\* the stored time is shown: utc_naive_to_moscow(lesson.scheduled_at)
show_scheduled_at ==
    /\ calc.fn = "time"
    /\ calc.step = "stored"
    /\ calc' = [calc EXCEPT !.step = "shown", !.shown = utc_naive_to_moscow(calc.stored)]
    /\ UNCHANGED pureFrame

\* the shown time is taken back to the storage representation
restore_scheduled_at ==
    /\ calc.fn = "time"
    /\ calc.step = "shown"
    /\ calc' = [calc EXCEPT !.step = "restored", !.restored = to_utc_naive_dt(calc.shown)]
    /\ UNCHANGED pureFrame

NextPure ==
    \/ scan_free_slots
    \/ \E start \in BusyTimes : check_slot(start)
    \/ store_scheduled_at
    \/ show_scheduled_at
    \/ restore_scheduled_at

SpecPure == InitPure /\ [][NextPure]_vars

(***************************************************************************)
(* The event loop.  One thread runs every handler: a handler holds the     *)
(* loop from the moment it is resumed until its next await, and a call     *)
(* that is not awaited holds it until the call returns.                    *)
(*   owner     the user whose handler is running on the loop, or NoVal     *)
(*   at[u]     where the handler of u's update is                          *)
(*   inbox[u]  the update of u that is waiting for the loop                *)
(***************************************************************************)
loopFrame == << calendar, nextEventId, ledger, lessons, fsmState, fsmData, task, outbox,
                commands, now, ticks, rjob, cjob, delivered, funnelVars, calc, moreVars >>

UpdateKinds == {"book", "text"}

\* a user sends /book or a text message
receive_update(u, kind) ==
    /\ loop.received < MaxUpdates
    /\ loop.inbox[u] = "none"
    /\ loop.at[u] = "none"
    /\ loop' = [loop EXCEPT !.inbox[u] = kind, !.received = @ + 1]
    /\ UNCHANGED loopFrame

\* the dispatcher starts the handler of a waiting update; cmd_book runs up to
\* `await message.answer(...)`, handle_text_message up to
\* `await get_full_parent_data(...)`, both of which give the loop back
feed_update(u) ==
    /\ loop.owner = NoVal
    /\ loop.inbox[u] # "none"
    /\ loop' = [loop EXCEPT !.inbox[u] = "none",
                            !.at[u] = IF loop.inbox[u] = "book" THEN "answering" ELSE "profile"]
    /\ UNCHANGED loopFrame

\* cmd_book line 57: the awaited answer is over, the handler is resumed and
\* calls cal_service.get_free_slots(...) without await
get_free_slots_call(u) ==
    /\ loop.owner = NoVal
    /\ loop.at[u] = "answering"
    /\ loop' = [loop EXCEPT !.owner = u, !.at[u] = "calendar", !.day[u] = 1, !.attempt[u] = 1]
    /\ UNCHANGED loopFrame

\* the day's get_busy_slots is over: the scan goes to the next day, or the
\* handler awaits its reply
NextDay(u) ==
    IF loop.day[u] < NumDays
    THEN loop' = [loop EXCEPT !.day[u] = @ + 1, !.attempt[u] = 1]
    ELSE loop' = [loop EXCEPT !.owner = NoVal, !.at[u] = "replying",
                              !.day[u] = 0, !.attempt[u] = 0]

\* one attempt of _execute_list under sync_retry: the request is made on the
\* loop's thread; a failure before the last attempt goes to time.sleep(delay)
execute_list(u, ok) ==
    /\ loop.owner = u
    /\ loop.at[u] = "calendar"
    /\ IF ~ok /\ loop.attempt[u] < MAX_ATTEMPTS
       THEN loop' = [loop EXCEPT !.at[u] = "backoff"]
       ELSE NextDay(u)
    /\ UNCHANGED loopFrame

\* sync_retry line 166: time.sleep(delay) returns
backoff_sleep(u) ==
    /\ loop.owner = u
    /\ loop.at[u] = "backoff"
    /\ loop' = [loop EXCEPT !.at[u] = "calendar", !.attempt[u] = @ + 1]
    /\ UNCHANGED loopFrame

\* handle_text_message lines 124-166: the awaited profile and history reads
\* are over, the handler is resumed and calls intent_recognizer.recognize
recognize_call(u) ==
    /\ loop.owner = NoVal
    /\ loop.at[u] = "profile"
    /\ IF parents[u].is_blocked
       THEN loop' = [loop EXCEPT !.at[u] = "none"]
       ELSE IF ~parents[u].onboarding_completed_at
       THEN loop' = [loop EXCEPT !.at[u] = "replying"]
       ELSE loop' = [loop EXCEPT !.owner = u, !.at[u] = "encode"]
    /\ UNCHANGED loopFrame

\* _get_intent_by_semantic: self.model.encode([query]) returns; the handler
\* goes on to its next await
encode(u) ==
    /\ loop.owner = u
    /\ loop.at[u] = "encode"
    /\ loop' = [loop EXCEPT !.owner = NoVal, !.at[u] = "replying"]
    /\ UNCHANGED loopFrame

\* the awaited reply is over and the handler returns
handler_returns(u) ==
    /\ loop.owner = NoVal
    /\ loop.at[u] = "replying"
    /\ loop' = [loop EXCEPT !.at[u] = "none"]
    /\ UNCHANGED loopFrame

NextLoop ==
    \/ \E u \in Users, kind \in UpdateKinds : receive_update(u, kind)
    \/ \E u \in Users : feed_update(u)
    \/ \E u \in Users : get_free_slots_call(u)
    \/ \E u \in Users, ok \in BOOLEAN : execute_list(u, ok)
    \/ \E u \in Users : backoff_sleep(u)
    \/ \E u \in Users : recognize_call(u)
    \/ \E u \in Users : encode(u)
    \/ \E u \in Users : handler_returns(u)

\* the users have finished onboarding
InitLoop ==
    /\ InitBooking
    /\ parents = [u \in Users |-> [NewParent EXCEPT !.onboarding_completed_at = TRUE,
                                                    !.contact = TRUE]]
    /\ children = [u \in Users |-> 1]
    /\ msg = [u \in Users |-> [s \in Slots |-> NoMsg]]
    /\ blockNotes = [u \in Users |-> 0]
    /\ hist = [u \in Users |-> NoHist]
    /\ msgs = [received |-> 0, overlapping |-> 0, unblocks |-> 0]
    /\ InitRest

SpecLoop == InitLoop /\ [][NextLoop]_vars

(***************************************************************************)
(* handle_text_message as the awaited calls that can raise: the body of    *)
(* its try statement and its except branch.  Each call to the store or to  *)
(* Telegram returns or raises; what the calls compute is in the funnel     *)
(* part above.  run[u] keeps, after the handler has ended, how it ended.   *)
(***************************************************************************)
guardFrame == << calendar, nextEventId, ledger, lessons, fsmState, fsmData, task, outbox,
                 commands, now, ticks, rjob, cjob, delivered, funnelVars, calc, loop, ins, again >>

\* the handler is entered with the user's text; the previous outcome is forgotten
enter_try(u) ==
    /\ run[u].pc = "idle"
    /\ run' = [run EXCEPT ![u] = [NoRun EXCEPT !.pc = "get_full_parent_data"]]
    /\ UNCHANGED << dialog, guardFrame >>

\* an exception raised in the try body is caught by except Exception
Raise(u) == run' = [run EXCEPT ![u].pc = "except", ![u].caught = TRUE]

\* the handler returns from its try body
Return(u, after) == run' = [run EXCEPT ![u].pc = "idle", ![u].returned = after]

\* lines 124-152: the profile is read; blocked users get nothing, users who
\* have not finished onboarding get the invitation
try_get_full_parent_data(u, ok) ==
    /\ run[u].pc = "get_full_parent_data"
    /\ IF ~ok THEN Raise(u)
       ELSE IF parents[u].is_blocked THEN Return(u, "blocked")
       ELSE IF ~parents[u].onboarding_completed_at
       THEN run' = [run EXCEPT ![u].pc = "invite"]
       ELSE run' = [run EXCEPT ![u].pc = "load_dialog"]
    /\ UNCHANGED << dialog, guardFrame >>

\* lines 147-152: message.answer with the invitation
try_invite(u, ok) ==
    /\ run[u].pc = "invite"
    /\ IF ok THEN Return(u, "invitation") ELSE Raise(u)
    /\ UNCHANGED << dialog, guardFrame >>

\* Parent.id, the primary key the database gave to the profile row of the
\* user.  The rows of the users are among those of a larger table; the row
\* of user 2 is the one whose key is the number that is user 1's Telegram id.
parent_id(u) == IF u = 2 THEN TelegramId(1) ELSE 100 + u

\* load_dialog(parent_id): the last rows WHERE DialogHistory.parent_id ==
\* parent_id; d holds the number of rows saved under each user's Parent.id
load_dialog(d, key) ==
    IF \E v \in Users : parent_id(v) = key /\ d[v] > 0
    THEN LET v == CHOOSE w \in Users : parent_id(w) = key
         IN [owner |-> v, rows |-> IF d[v] < DIALOG_LIMIT THEN d[v] ELSE DIALOG_LIMIT]
    ELSE NoHistory

\* line 155: history = await load_dialog(user_id), user_id being
\* message.from_user.id
try_load_dialog(u, ok) ==
    /\ run[u].pc = "load_dialog"
    /\ IF ok THEN run' = [run EXCEPT ![u].pc = "save_dialog",
                                     ![u].history = load_dialog(dialog, TelegramId(u))]
             ELSE Raise(u)
    /\ UNCHANGED << dialog, guardFrame >>

\* save_dialog(parent.id, ...) adds a row under the Parent.id of the user
save_dialog(u) == dialog' = [dialog EXCEPT ![u] = IF @ < MaxDialog THEN @ + 1 ELSE @]

\* lines 156-158: get_or_create_parent, then save_dialog of the user's text
try_save_dialog(u, ok) ==
    /\ run[u].pc = "save_dialog"
    /\ IF ok THEN /\ run' = [run EXCEPT ![u].pc = "respond"]
                  /\ save_dialog(u)
             ELSE /\ Raise(u)
                  /\ UNCHANGED dialog
    /\ UNCHANGED guardFrame

\* lines 160-270: recognition, classification and the answer; the answer is
\* saved to the dialog unless a call raised before
try_respond(u, ok, saved) ==
    /\ run[u].pc = "respond"
    /\ IF ok THEN /\ Return(u, "answer")
                  /\ IF saved THEN save_dialog(u) ELSE UNCHANGED dialog
             ELSE /\ Raise(u)
                  /\ UNCHANGED dialog
    /\ UNCHANGED guardFrame

\* line 274: history_for_admin = await load_dialog(user_id), with the same
\* Telegram id, outside any try:
\* when it raises, the exception leaves the handler
except_load_dialog(u, ok) ==
    /\ run[u].pc = "except"
    /\ IF ok THEN run' = [run EXCEPT ![u].pc = "notify_admin_on_error",
                                     ![u].history = load_dialog(dialog, TelegramId(u))]
             ELSE run' = [run EXCEPT ![u].pc = "idle", ![u].escaped = TRUE]
    /\ UNCHANGED << dialog, guardFrame >>

\* history[-5:]
recent_window(n) == IF n < HISTORY_WINDOW THEN n ELSE HISTORY_WINDOW

\* lines 275-278 and notify_admin_on_error: the report with the last rows of
\* the dialog; _send_to_admins sends nothing when ADMIN_IDS is empty and
\* swallows the failure of a send, so the call never raises
notify_admin_on_error(u, sent) ==
    /\ run[u].pc = "notify_admin_on_error"
    /\ run' = [run EXCEPT ![u].pc = "apologise",
                          ![u].reported = sent,
                          ![u].window = IF sent THEN recent_window(run[u].history.rows) ELSE 0]
    /\ UNCHANGED << dialog, guardFrame >>

\* line 279: message.answer with the apology, outside any try
except_answer(u, ok) ==
    /\ run[u].pc = "apologise"
    /\ IF ok THEN run' = [run EXCEPT ![u].pc = "idle", ![u].apology = TRUE]
             ELSE run' = [run EXCEPT ![u].pc = "idle", ![u].escaped = TRUE]
    /\ UNCHANGED << dialog, guardFrame >>

NextGuard ==
    \/ \E u \in Users : enter_try(u)
    \/ \E u \in Users, ok \in BOOLEAN : try_get_full_parent_data(u, ok)
    \/ \E u \in Users, ok \in BOOLEAN : try_invite(u, ok)
    \/ \E u \in Users, ok \in BOOLEAN : try_load_dialog(u, ok)
    \/ \E u \in Users, ok \in BOOLEAN : try_save_dialog(u, ok)
    \/ \E u \in Users, ok \in BOOLEAN, saved \in BOOLEAN : try_respond(u, ok, saved)
    \/ \E u \in Users, ok \in BOOLEAN : except_load_dialog(u, ok)
    \/ \E u \in Users, sent \in BOOLEAN : notify_admin_on_error(u, sent)
    \/ \E u \in Users, ok \in BOOLEAN : except_answer(u, ok)

\* each user is new, has finished onboarding, or has been blocked since
InitGuard ==
    /\ InitBooking
    /\ InitRest
    /\ \E onboarded \in SUBSET Users : \E blocked \in SUBSET onboarded :
          parents = [u \in Users |-> [NewParent EXCEPT
                                         !.onboarding_completed_at = u \in onboarded,
                                         !.contact = u \in onboarded,
                                         !.is_blocked = u \in blocked]]
    /\ children = [u \in Users |-> 0]
    /\ msg = [u \in Users |-> [s \in Slots |-> NoMsg]]
    /\ blockNotes = [u \in Users |-> 0]
    /\ hist = [u \in Users |-> NoHist]
    /\ msgs = [received |-> 0, overlapping |-> 0, unblocks |-> 0]

SpecGuard == InitGuard /\ [][NextGuard]_vars

(***************************************************************************)
(* create_event inside book_slot: the insert request is made under         *)
(* sync_retry, which retries on any exception.  A request that fails may   *)
(* have been refused, or may have been carried out by the calendar with    *)
(* its response lost (a timeout).  The call is synchronous, so one         *)
(* book_slot call is in create_event at a time.                            *)
(***************************************************************************)
insertFrame == << ledger, lessons, fsmState, fsmData, task, outbox, commands,
                  now, ticks, rjob, cjob, delivered, funnelVars, calc, loop, run, dialog, again >>

\* book_slot lines 80-85 for a new booking: the availability re-check, after
\* which create_event is called
book_slot_call(u, s, listOk) ==
    /\ ins.pc = "idle"
    /\ nextEventId + MAX_INSERT_ATTEMPTS - 1 <= MaxInserted
    /\ ins' = IF is_slot_available(calendar, s, s + SLOT_DURATION, listOk)
              THEN [NoInsert EXCEPT !.pc = "insert", !.user = u, !.slot = s, !.attempt = 1]
              ELSE [NoInsert EXCEPT !.user = u, !.slot = s]
    /\ UNCHANGED << calendar, nextEventId, insertFrame >>

\* what one insert request can come to
InsertOutcomes == {"created", "refused", "lost"}

\* the calendar carries out an insert request of the call in progress: the
\* body sent carries no id, so each request carried out is a new event
Inserted ==
    /\ calendar' = calendar \cup {[id |-> nextEventId, start |-> ins.slot,
                                   end |-> ins.slot + SLOT_DURATION, owner |-> ins.user]}
    /\ nextEventId' = nextEventId + 1

\* one attempt of _execute_insert under sync_retry (max_attempts = 3, every
\* exception retryable): the result is returned, or the attempt is repeated
\* after the backoff, or the last exception is raised and book_slot returns
\* success False
execute_insert(outcome) ==
    /\ ins.pc = "insert"
    /\ IF outcome = "created"
       THEN /\ Inserted
            /\ ins' = [ins EXCEPT !.pc = "idle", !.created = @ + 1, !.success = TRUE]
       ELSE /\ IF outcome = "lost" THEN Inserted ELSE UNCHANGED << calendar, nextEventId >>
            /\ ins' = [ins EXCEPT !.created = @ + (IF outcome = "lost" THEN 1 ELSE 0),
                                  !.pc = IF ins.attempt >= MAX_INSERT_ATTEMPTS
                                         THEN "idle" ELSE "backoff"]
    /\ UNCHANGED insertFrame

\* time.sleep(delay), then the next attempt
insert_backoff ==
    /\ ins.pc = "backoff"
    /\ ins' = [ins EXCEPT !.pc = "insert", !.attempt = @ + 1]
    /\ UNCHANGED << calendar, nextEventId, insertFrame >>

NextInsert ==
    \/ \E u \in Users, s \in Candidates, listOk \in BOOLEAN : book_slot_call(u, s, listOk)
    \/ \E outcome \in InsertOutcomes : execute_insert(outcome)
    \/ insert_backoff

SpecInsert == Init /\ [][NextInsert]_vars

(***************************************************************************)
(* A second confirm_booking callback of the same user.  Updates are        *)
(* handled as concurrent tasks, and process_booking_confirmation clears    *)
(* the FSM state only after book_slot has returned: while the first        *)
(* handler is suspended in book_slot the state filter still lets a second  *)
(* callback through.  again[u] is that second handler; it keeps the slot   *)
(* and the event id of its book_slot call after it has returned.           *)
(***************************************************************************)
doubleFrame == << commands, now, ticks, rjob, cjob, delivered, funnelVars, calc, loop,
                  run, dialog, ins >>

\* book_slot calls of second handlers that have not reached create_event yet
PendingAgain == Cardinality({ v \in Users : again[v].pc = "book_slot" })

\* the second handler returns; its book_slot call stays on record
ReturnsAgain(u, eid) ==
    again' = [again EXCEPT ![u].pc = "done", ![u].event_id = eid]

\* process_booking_confirmation lines 131-168, entered while the user's first
\* confirmation is in book_slot: the state is still confirming and the data
\* still holds the selected slot.  Each user presses the button a second
\* time once.
process_booking_confirmation_again(u) ==
    /\ task[u].kind = "confirm_booking"
    /\ task[u].pc \in {"book_slot", "persist"}
    /\ again[u].pc = "done"
    /\ again[u].kind = "none"
    /\ fsmState[u] = "confirming"
    /\ fsmData[u].selected_slot # NoVal
    /\ nextEventId + PendingInserts + PendingAgain <= MaxEvents
    /\ Says(u, "progress")
    /\ again' = [again EXCEPT ![u] =
                    [NoTask EXCEPT !.kind = "confirm_booking", !.pc = "book_slot",
                                   !.slot = fsmData[u].selected_slot]]
    /\ UNCHANGED << calendar, nextEventId, ledger, lessons, fsmState, fsmData, task >>
    /\ UNCHANGED doubleFrame

\* a re-check that trusts the slot chosen from the list
slot_still_free_unchecked(cal, s, listOk) == listOk

\* book_slot line 80: self.is_slot_available(start_time, end_time)
slot_still_free(cal, s, listOk) == is_slot_available(cal, s, s + SLOT_DURATION, listOk)

\* book_slot lines 80-152 of the second handler, and lines 170-229 of the
\* handler when book_slot returned success False
book_slot_sync_again(u) ==
    /\ again[u].pc = "book_slot"
    /\ \E listOk, insertOk, sheetOk \in BOOLEAN :
         LET s == again[u].slot
             eid == nextEventId
         IN IF ~slot_still_free(calendar, s, listOk) \/ ~insertOk
            THEN /\ Cleared(u)
                 /\ SaysWhy(u, "booking_failed",
                            IF ~slot_still_free(calendar, s, listOk) THEN "slot_taken"
                                                                     ELSE "error")
                 /\ ReturnsAgain(u, NoVal)
                 /\ UNCHANGED << calendar, nextEventId, ledger >>
            ELSE /\ calendar' = calendar \cup {[id |-> eid, start |-> s,
                                                end |-> s + SLOT_DURATION, owner |-> u]}
                 /\ nextEventId' = eid + 1
                 /\ ledger' = IF sheetOk THEN [ledger EXCEPT ![eid] = "created"] ELSE ledger
                 /\ again' = [again EXCEPT ![u].pc = "persist", ![u].event_id = eid]
                 /\ UNCHANGED << fsmState, fsmData, outbox >>
    /\ UNCHANGED << lessons, task >>
    /\ UNCHANGED doubleFrame

\* book_slot lines 154-212 of the second handler, then the success reply
book_slot_persist_again(u) ==
    /\ again[u].pc = "persist"
    /\ \E dbOk \in BOOLEAN :
         lessons' = IF dbOk
                    THEN Append(lessons, NewLesson(u, again[u].slot, again[u].event_id))
                    ELSE lessons
    /\ Cleared(u)
    /\ Says(u, "booking_ok")
    /\ ReturnsAgain(u, again[u].event_id)
    /\ UNCHANGED << calendar, nextEventId, ledger, task >>
    /\ UNCHANGED doubleFrame

NextDouble ==
    \/ \E u \in Users : cmd_book(u)
    \/ \E u \in Users, s \in Candidates, okDays \in SUBSET Days :
         process_slot_selection(u, s, okDays)
    \/ \E u \in Users : process_booking_confirmation(u)
    \/ \E u \in Users : book_slot_sync(u)
    \/ \E u \in Users : book_slot_persist(u)
    \/ \E u \in Users : process_booking_confirmation_again(u)
    \/ \E u \in Users : book_slot_sync_again(u)
    \/ \E u \in Users : book_slot_persist_again(u)

SpecDouble == Init /\ [][NextDouble]_vars

(***************************************************************************)
(* Onboarding: the handlers of the onboarding router, each chosen by the   *)
(* state filter of its decorator, from start_fsm_scenario to the end of    *)
(* finish_onboarding.  A text handler runs from its filter to its reply    *)
(* with no database call in between; finish_onboarding awaits the database *)
(* twice, and the state is cleared only at its end, so a second answer can *)
(* be handled meanwhile.                                                   *)
(***************************************************************************)
\* OnboardingFSM; confirm_data is declared and never set
OnboardingStates == {"entering_parent_name", "entering_child_name", "entering_child_age",
                     "entering_interests", "choose_contact_method", "entering_phone",
                     "entering_email", "confirm_data"}

\* callback data of the three buttons of process_interests
ContactMethods == {"phone", "email", "telegram"}

\* what the user types as the age: a number or not
AgeTexts == {[numeric |-> FALSE, value |-> 0]}
            \cup {[numeric |-> TRUE, value |-> v] :
                    v \in {MIN_CHILD_AGE - 1, MIN_CHILD_AGE, MAX_CHILD_AGE, MAX_CHILD_AGE + 1}}

\* state.set_state(st)
Goes(u, st) == /\ fsmState' = [fsmState EXCEPT ![u] = st]
               /\ hist' = [hist EXCEPT ![u].visited = @ \cup {st}]

\* state.update_data(user_answers=...) with the keys added
Answered(u, keys) == fsmData' = [fsmData EXCEPT ![u].user_answers = @ \cup keys]

\* start_fsm_scenario: the first question; the profile row exists, its start
\* time is not among the fields kept here.  It is entered for a user who has
\* not finished onboarding and is in no dialog.
start_fsm_scenario(u) ==
    /\ fsmState[u] = FsmIdle
    /\ UserIdle(u)
    /\ ~parents[u].onboarding_completed_at
    /\ Goes(u, "entering_parent_name")
    /\ fsmData' = [fsmData EXCEPT ![u].user_answers = {}]
    /\ Says(u, "ask_parent_name")
    /\ UNCHANGED << parents, children, msg, blockNotes, msgs, funnelFrame >>

process_parent_name(u) ==
    /\ fsmState[u] = "entering_parent_name"
    /\ Answered(u, {"parent_name"})
    /\ Goes(u, "entering_child_name")
    /\ Says(u, "ask_child_name")
    /\ UNCHANGED << parents, children, msg, blockNotes, msgs, funnelFrame >>

process_child_name(u) ==
    /\ fsmState[u] = "entering_child_name"
    /\ Answered(u, {"child_name"})
    /\ Goes(u, "entering_child_age")
    /\ Says(u, "ask_child_age")
    /\ UNCHANGED << parents, children, msg, blockNotes, msgs, funnelFrame >>

\* an age check that has no upper end
age_out_of_range_below(age) == age < MIN_CHILD_AGE

\* child_age < 1 or child_age > 18
age_out_of_range(age) == age < MIN_CHILD_AGE \/ age > MAX_CHILD_AGE

\* int(text) raises ValueError for what is not a number; ages outside
\* [1, 18] are refused; either way the question is asked again
process_child_age(u, text) ==
    /\ fsmState[u] = "entering_child_age"
    /\ IF ~text.numeric
       THEN /\ Says(u, "age_not_a_number")
            /\ UNCHANGED << fsmState, fsmData, hist >>
       ELSE IF age_out_of_range(text.value)
       THEN /\ Says(u, "age_out_of_range")
            /\ UNCHANGED << fsmState, fsmData, hist >>
       ELSE /\ Answered(u, {"child_age"})
            /\ Goes(u, "entering_interests")
            /\ Says(u, "ask_interests")
    /\ UNCHANGED << parents, children, msg, blockNotes, msgs, funnelFrame >>

process_interests(u) ==
    /\ fsmState[u] = "entering_interests"
    /\ Answered(u, {"child_interests"})
    /\ Goes(u, "choose_contact_method")
    /\ Says(u, "ask_contact_method")
    /\ UNCHANGED << parents, children, msg, blockNotes, msgs, funnelFrame >>

\* finish_onboarding called by the handler in slot s, lines 185-231: the child
\* row is added and committed; an exception of add_child_profile ends the
\* handler
finish_onboarding_call(u, s, childOk) ==
    /\ FreeSlot(u, s)
    /\ children[u] < MaxChildren
    /\ IF childOk
       THEN /\ children' = [children EXCEPT ![u] = @ + 1]
            /\ msg' = [msg EXCEPT ![u][s] = [NoMsg EXCEPT !.pc = "complete_onboarding",
                                                       !.kind = "onboarding"]]
       ELSE UNCHANGED << children, msg >>

\* a contact step that asks the first question again
contact_state_first(method) == "entering_parent_name"

\* the state that asks for the contact of the chosen kind
contact_state(method) == IF method = "phone" THEN "entering_phone" ELSE "entering_email"

\* process_contact_method: phone and email ask for the contact (the method
\* is put in the local answers only); anything else is telegram, which
\* finishes at once, the state being left as it is until finish_onboarding
\* clears it
process_contact_method(u, s, method, childOk) ==
    /\ fsmState[u] = "choose_contact_method"
    /\ IF method \in {"phone", "email"}
       THEN /\ s = 1
            /\ childOk
            /\ Goes(u, contact_state(method))
            /\ Says(u, IF method = "phone" THEN "ask_phone" ELSE "ask_email")
            /\ UNCHANGED << fsmData, children, msg >>
       ELSE /\ Answered(u, {"contact_method", "parent_phone", "parent_email", "parent_contact_tg"})
            /\ finish_onboarding_call(u, s, childOk)
            /\ UNCHANGED << fsmState, hist, outbox >>
    /\ UNCHANGED << parents, blockNotes, msgs, funnelFrame >>

process_phone(u, s, childOk) ==
    /\ fsmState[u] = "entering_phone"
    /\ Answered(u, {"parent_phone", "parent_email", "parent_contact_tg"})
    /\ finish_onboarding_call(u, s, childOk)
    /\ UNCHANGED << fsmState, hist, outbox, parents, blockNotes, msgs, funnelFrame >>

process_email(u, s, childOk) ==
    /\ fsmState[u] = "entering_email"
    /\ Answered(u, {"parent_phone", "parent_email", "parent_contact_tg"})
    /\ finish_onboarding_call(u, s, childOk)
    /\ UNCHANGED << fsmState, hist, outbox, parents, blockNotes, msgs, funnelFrame >>

NextOnboarding ==
    \/ \E u \in Users : start_fsm_scenario(u)
    \/ \E u \in Users : process_parent_name(u)
    \/ \E u \in Users : process_child_name(u)
    \/ \E u \in Users, text \in AgeTexts : process_child_age(u, text)
    \/ \E u \in Users : process_interests(u)
    \/ \E u \in Users, s \in Slots, method \in ContactMethods, childOk \in BOOLEAN :
         process_contact_method(u, s, method, childOk)
    \/ \E u \in Users, s \in Slots, childOk \in BOOLEAN : process_phone(u, s, childOk)
    \/ \E u \in Users, s \in Slots, childOk \in BOOLEAN : process_email(u, s, childOk)
    \/ \E u \in Users, s \in Slots, updateOk \in BOOLEAN : complete_onboarding_in_db(u, s, updateOk)
    \/ \E u \in Users, s \in Slots : finish_onboarding_reply(u, s)

SpecOnboarding == Init /\ [][NextOnboarding]_vars

(***************************************************************************)
(* Routing of text messages: the routers in the order setup_handlers       *)
(* includes them, the message handlers of each in the order of their       *)
(* decorators.  An update goes to the first handler whose filters pass.    *)
(* Of the commands, /start stands for all: each is a text the commands     *)
(* router takes before the others see it.  The users have not finished     *)
(* onboarding.                                                             *)
(***************************************************************************)
\* a message is the command /start or a text that is no command and no
\* button of the reply keyboard
Texts == {"start", "plain"}

AnyText == Texts
AnyState == "any"

\* the message handlers: the router, the state of the filter and the
\* texts the filter passes
MessageHandlers ==
    << [name |-> "cmd_start", router |-> "commands", state |-> AnyState, texts |-> {"start"}],
       [name |-> "handle_start", router |-> "sales_funnel", state |-> AnyState, texts |-> {"start"}],
       [name |-> "handle_text_message", router |-> "sales_funnel", state |-> AnyState,
        texts |-> AnyText],
       [name |-> "process_parent_name", router |-> "onboarding",
        state |-> "entering_parent_name", texts |-> AnyText],
       [name |-> "process_child_name", router |-> "onboarding",
        state |-> "entering_child_name", texts |-> AnyText],
       [name |-> "process_child_age", router |-> "onboarding",
        state |-> "entering_child_age", texts |-> AnyText],
       [name |-> "process_interests", router |-> "onboarding",
        state |-> "entering_interests", texts |-> AnyText],
       [name |-> "process_phone", router |-> "onboarding",
        state |-> "entering_phone", texts |-> AnyText],
       [name |-> "process_email", router |-> "onboarding",
        state |-> "entering_email", texts |-> AnyText],
       [name |-> "process_waitlist_contact", router |-> "waitlist",
        state |-> "waiting_for_contact", texts |-> AnyText] >>

\* the filters of handler h pass for a text sent in the state
Passes(h, state, text) == /\ h.state \in {AnyState, state}
                          /\ text \in h.texts

\* the handler an update goes to: the first whose filters pass, none if no
\* handler takes it
route_message(state, text) ==
    LET passing == {i \in DOMAIN MessageHandlers : Passes(MessageHandlers[i], state, text)}
    IN IF passing = {}
       THEN "none"
       ELSE MessageHandlers[CHOOSE i \in passing : \A j \in passing : i <= j].name

\* handle_waitlist_join: asks for the contact
handle_waitlist_join(u) ==
    /\ fsmState[u] # "waiting_for_contact"
    /\ Says(u, "ask_waitlist_contact")
    /\ fsmState' = [fsmState EXCEPT ![u] = "waiting_for_contact"]
    /\ UNCHANGED << fsmData, funnelVars, funnelFrame >>

\* handle_waitlist_cancel: state.clear() and the main menu
handle_waitlist_cancel(u) ==
    /\ fsmState[u] = "waiting_for_contact"
    /\ Cleared(u)
    /\ Says(u, "waitlist_cancelled")
    /\ UNCHANGED << funnelVars, funnelFrame >>

\* cmd_start: the welcome and the reply keyboard; the state is not touched
cmd_start(u) ==
    /\ Update(1)
    /\ Says(u, "welcome")
    /\ UNCHANGED << fsmState, fsmData, parents, children, msg, blockNotes, hist, funnelFrame >>

\* process_waitlist_contact: the contact is saved (the waitlist table is not
\* kept here), the user is thanked and the state cleared
process_waitlist_contact(u) ==
    /\ fsmState[u] = "waiting_for_contact"
    /\ Says(u, "waitlist_saved")
    /\ Cleared(u)
    /\ UNCHANGED << funnelVars, funnelFrame >>

\* a text message of user u is received and handled by the handler the
\* routers give it to
message_update(u, text) ==
    LET name == route_message(fsmState[u], text)
    IN CASE name = "cmd_start" -> cmd_start(u)
         [] name = "handle_text_message" -> handle_text_message(u, 1, "other")
         [] name = "process_parent_name" -> process_parent_name(u)
         [] name = "process_child_name" -> process_child_name(u)
         [] name = "process_child_age" -> \E age \in AgeTexts : process_child_age(u, age)
         [] name = "process_interests" -> process_interests(u)
         [] name = "process_phone" -> \E childOk \in BOOLEAN : process_phone(u, 1, childOk)
         [] name = "process_email" -> \E childOk \in BOOLEAN : process_email(u, 1, childOk)
         [] name = "process_waitlist_contact" -> process_waitlist_contact(u)
         [] OTHER -> FALSE

NextRouting ==
    \/ \E u \in Users : start_fsm_scenario(u)
    \/ \E u \in Users : handle_waitlist_join(u)
    \/ \E u \in Users : handle_waitlist_cancel(u)
    \/ \E u \in Users, text \in Texts : message_update(u, text)

SpecRouting == Init /\ [][NextRouting]_vars



(***************************************************************************)
(* Properties of the booking dialog (specification Spec).                  *)
(***************************************************************************)
\* the windows of two calendar events intersect
EventsOverlap(a, b) == Overlaps(a.start, a.end, [start |-> b.start, end |-> b.end])

\* C1: slot exclusivity.  Under any interleaving of bookings there are never
\* two PLANNED lessons with the same scheduled time and never two calendar
\* events with overlapping windows.  It is read in the states where no
\* handler is in progress, so that a state inside one operation does not count.
C1_SlotExclusivity ==
    (\A u \in Users : task[u] = NoTask) =>
        /\ \A i, j \in 1..Len(lessons) :
             (i # j /\ lessons[i].status = "PLANNED" /\ lessons[j].status = "PLANNED")
                => lessons[i].scheduled_at # lessons[j].scheduled_at
        /\ \A a, b \in calendar : a # b => ~EventsOverlap(a, b)

\* the window book_slot of user u is called for overlaps an event that another
\* booking created (not the event this call is to replace)
Collides(u) ==
    \E ev \in calendar :
       /\ ev.id # task[u].cancel_event_id
       /\ Overlaps(task[u].slot, task[u].slot + SLOT_DURATION,
                   [start |-> ev.start, end |-> ev.end])

\* C2: a book_slot call for a window overlapping an event of another booking
\* returns success False with the reason "slot taken" (quoted to the user),
\* creates no calendar event and persists no lesson.
C2_LosingBookingRejected ==
    [][\A u \in Users :
         (book_slot_sync(u) /\ Collides(u)) =>
            /\ outbox'.user = u
            /\ outbox'.text \in {"booking_failed", "reschedule_failed"}
            /\ outbox'.reason = "slot_taken"
            /\ calendar' \subseteq calendar
            /\ nextEventId' = nextEventId
            /\ lessons' = lessons
            /\ task'[u] = NoTask]_vars

\* a finished booking of another user holds an event that overlaps every slot
\* user u could have chosen
HeldByOther(u) ==
    \E ev \in calendar :
       /\ ev.owner # u
       /\ \E i \in 1..Len(lessons) : lessons[i].event_id = ev.id
       /\ \A s \in Candidates :
            Overlaps(s, s + SLOT_DURATION, [start |-> ev.start, end |-> ev.end])

\* the booking of a user has just lost to the event another user holds, and
\* nothing of the loser's exists
C2_Witness ==
    /\ outbox.text = "booking_failed"
    /\ outbox.reason = "slot_taken"
    /\ HeldByOther(outbox.user)
    /\ \A ev \in calendar : ev.owner # outbox.user
    /\ \A i \in 1..Len(lessons) : lessons[i].parent # outbox.user

\* the texts by which a confirm handler reports failure
FailureTexts == {"booking_failed", "reschedule_failed", "cancel_failed", "error"}

\* a step of a confirm handler of user u
ConfirmStep(u) ==
    \/ process_booking_confirmation(u)
    \/ process_reschedule_confirmation(u)
    \/ process_cancel_confirmation(u)
    \/ book_slot_sync(u)
    \/ book_slot_persist(u)
    \/ cancel_booking_sync(u)
    \/ cancel_booking_db(u)

\* C3: when a confirm handler reports failure to the user, the action has
\* created or removed no calendar event, no lesson row and no ledger row.
C3_FailureLeavesNoArtifact ==
    [][\A u \in Users :
         (ConfirmStep(u) /\ outbox'.user = u /\ outbox'.text \in FailureTexts) =>
            /\ calendar' = calendar
            /\ lessons' = lessons
            /\ ledger' = ledger]_vars

\* a terminal callback of user u has been handled in this step
TerminalHandled(u) ==
    /\ task'[u] = NoTask
    /\ \/ ConfirmStep(u)
       \/ back_to_menu(u)
       \/ process_cancel_booking(u)
       \/ process_cancel_reschedule(u)
       \/ process_cancel_cancel(u)

C5_StaleSlotAborts ==
    [][\A u \in Users, s \in Candidates, okDays \in SUBSET Days :
         (/\ \/ process_slot_selection(u, s, okDays)
             \/ process_slot_selection_for_reschedule(u, s, okDays)
          /\ s \notin SeqToSet(get_free_slots(calendar, okDays)))
         => /\ outbox' = [user |-> u, text |-> "slot_gone", reason |-> "none"]
            /\ fsmState'[u] = FsmIdle
            /\ fsmData'[u] = EmptyData
            /\ task'[u] = NoTask]_vars

\* a user has just been told the slot is gone: another user's finished
\* booking had taken it after the slots were listed
C5_Witness ==
    /\ outbox.text = "slot_gone"
    /\ HeldByOther(outbox.user)
    /\ fsmState[outbox.user] = FsmIdle
    /\ fsmData[outbox.user] = EmptyData

\* C6: the FSM state and data a user's turn wrote are still there at the
\* user's next turn when the process restarts in between.
C6_StateSurvivesRestart ==
    [][Restart => (fsmState' = fsmState /\ fsmData' = fsmData)]_vars


C8_FlagOnlyIfDelivered ==
    \A i \in 1..Len(lessons) :
       /\ lessons[i].reminder_24h_sent => delivered[i]["24h"] >= 1
       /\ lessons[i].reminder_1h_sent => delivered[i]["1h"] >= 1

C10_TerminalAbsorbing ==
    [][\A i \in 1..Len(lessons) :
         lessons[i].status \in {"COMPLETED", "CANCELLED", "NO_SHOW"}
            => lessons'[i].status = lessons[i].status]_vars


(***************************************************************************)
(* Properties of the sales funnel (specification SpecFunnel).              *)
(***************************************************************************)
\* C11: while a profile's blocked flag is true the bot sends that user no
\* reply, whether the update is a free-text message, a command or a button:
\* handling an update that arrived while the user was blocked never sends
\* the user a message.
C11_BlockedGetsNoReply ==
    [][\A u \in Users :
         (UserIdle(u) /\ parents[u].is_blocked)
            => ~(outbox' # outbox /\ outbox'.user = u)]_vars

\* C12: a profile is blocked once per crossing of the limit and exactly one
\* block notification goes to the operators for it: once the user's handlers
\* have returned, the notifications sent about the user are as many as the
\* times the profile went from unblocked to blocked.
C12_OneNotificationPerCrossing ==
    \A u \in Users : UserIdle(u) => blockNotes[u] = hist[u].crossings

\* a handler of the user's message changes its position
HandlerStep(u, s) ==
    << msg'[u][s].pc, msg'[u][s].call, msg'[u][s].attempt >>
       # << msg[u][s].pc, msg[u][s].call, msg[u][s].attempt >>

C14_BlockNeedsStreak ==
    [][\A u \in Users :
         (/\ parents'[u].is_blocked
          /\ ~parents[u].is_blocked
          /\ \A s \in Slots : ~msg[u][s].reset_meanwhile)
            => hist[u].streak >= IRRELEVANT_QUERY_LIMIT]_vars

\* C15: onboarding completion is atomic: once finish_onboarding is over,
\* failed or not, the child row, the contact fields and the completion
\* timestamp are all written or none of them is.
C15_OnboardingAtomic ==
    \A u \in Users :
       UserIdle(u) =>
          /\ (children[u] > 0) = parents[u].onboarding_completed_at
          /\ parents[u].contact = parents[u].onboarding_completed_at

\* C19: relevance classification fails open: when no client is available or
\* the call fails on every attempt, the handler goes the relevant way: it
\* answers and returns without incrementing the counter or blocking the user.
C19_ClassifierFailsOpen ==
    [][\A u \in Users, s \in Slots :
         (HandlerStep(u, s) /\ (msg[u][s].infra \/ msg'[u][s].infra)) =>
            /\ msg'[u][s].pc \in {"answer", "idle"}
            /\ parents' = parents]_vars

\* the classifier failed on the message that would have been the blocking one
C19_Witness ==
    \E u \in Users, s \in Slots :
       /\ msg[u][s].infra
       /\ msg[u][s].pc = "answer"
       /\ parents[u].irrelevant_count = IRRELEVANT_QUERY_LIMIT - 1
       /\ ~parents[u].is_blocked

(***************************************************************************)
(* Properties of the slot and time functions (specification SpecPure).     *)
(***************************************************************************)
\* the candidate starts of the scan: every 30 minutes from the start of the day
ScanGrid(endOfDay) ==
    { WorkStart + ScanInterval * k : k \in 0 .. ((endOfDay - WorkStart) \div ScanInterval) }

\* the candidates the claim calls free
ExpectedFree(busy, endOfDay) ==
    { c \in ScanGrid(endOfDay) :
        /\ c + SLOT_DURATION <= endOfDay
        /\ \A b \in busy : ~(c < b.end /\ c + SLOT_DURATION > b.start) }

\* C16: for every set of busy intervals get_free_slots returns exactly the
\* candidates of the 30-minute grid that end by the end of the day and that no
\* busy interval b overlaps (start < b.end and end > b.start), each once and in
\* order; a busy interval 10:00-11:00 removes the candidates starting 09:30,
\* 10:00 and 10:30 and keeps the ones ending at 10:00 and starting at 11:00;
\* is_slot_available answers by the same overlap test.
C16_FreeSlotsExact ==
    calc.fn = "slots" =>
       /\ calc.scanned =>
            /\ SeqToSet(calc.free_slots) = ExpectedFree(calc.busy, calc.end_of_day)
            /\ \A i \in 1 .. Len(calc.free_slots) - 1 :
                  calc.free_slots[i] < calc.free_slots[i + 1]
            /\ calc.busy = { [start |-> 600, end |-> 660] } =>
                  /\ {540, 660} \subseteq SeqToSet(calc.free_slots)
                  /\ { c \in ScanGrid(calc.end_of_day) : c + SLOT_DURATION <= calc.end_of_day }
                        \ SeqToSet(calc.free_slots) = {570, 600, 630}
       /\ calc.checked =>
            calc.available =
               (\A b \in calc.busy :
                   ~(calc.probe < b.end /\ calc.probe + SLOT_DURATION > b.start))

\* the day ends at 12:00 and 10:00-11:00 is busy: the slots at 09:00 and 11:00
\* are returned, and the slot at 11:00 is found available
C16_Witness ==
    /\ calc.fn = "slots"
    /\ calc.busy = { [start |-> 600, end |-> 660] }
    /\ calc.end_of_day = 720
    /\ calc.scanned
    /\ calc.free_slots = << 540, 660 >>
    /\ calc.checked
    /\ calc.probe = 660
    /\ calc.available

\* the scan of an empty day from 09:00 to 18:00 has been made
EmptyDayScanned ==
    /\ calc.fn = "slots"
    /\ calc.scanned
    /\ calc.busy = {}
    /\ calc.end_of_day = END_HOUR * 60

\* C17 as stated: with no busy intervals, working hours 09:00-18:00 and
\* 60-minute slots, one day yields 9 sequential, pairwise non-overlapping
\* slots, the first at 09:00.
C17_NineSlots ==
    EmptyDayScanned =>
       /\ Len(calc.free_slots) = 9
       /\ calc.free_slots[1] = WorkStart
       /\ \A i \in 1 .. Len(calc.free_slots) - 1 :
             calc.free_slots[i + 1] >= calc.free_slots[i] + SLOT_DURATION

\* C17 amended: with no busy intervals, working hours 09:00-18:00 and
\* 60-minute slots, one day yields 17 slots in order, the first at 09:00, each
\* starting 30 minutes after the one before (so neighbours overlap by 30
\* minutes), the last ending at 18:00.
C17_SeventeenSlots ==
    EmptyDayScanned =>
       /\ Len(calc.free_slots) = 17
       /\ calc.free_slots[1] = WorkStart
       /\ \A i \in 1 .. Len(calc.free_slots) - 1 :
             calc.free_slots[i + 1] = calc.free_slots[i] + 30
       /\ calc.free_slots[Len(calc.free_slots)] + SLOT_DURATION = END_HOUR * 60

C17_Witness ==
    /\ EmptyDayScanned
    /\ Len(calc.free_slots) > 0

\* C18: a stored UTC-naive time, shown as Moscow time and taken back to the
\* storage representation, is the stored time again; and an aware time,
\* stored and shown, denotes the instant it denoted, as Moscow time.
C18_RoundTrip ==
    calc.fn = "time" =>
       /\ calc.step \in {"stored", "shown", "restored"} =>
            /\ ~calc.stored.aware
            /\ ~calc.scheduled_at.aware => calc.stored = calc.scheduled_at
       /\ calc.step \in {"shown", "restored"} =>
            /\ calc.shown.aware
            /\ calc.shown.off = MSK_OFFSET
            /\ calc.shown.wall = calc.stored.wall + MSK_OFFSET
            /\ calc.scheduled_at.aware => Instant(calc.shown) = Instant(calc.scheduled_at)
       /\ calc.step = "restored" => calc.restored = calc.stored

\* a time given in a zone east of Moscow late in the evening has been stored,
\* shown and taken back
C18_Witness ==
    /\ calc.fn = "time"
    /\ calc.step = "restored"
    /\ calc.scheduled_at.aware
    /\ calc.scheduled_at.off = 300
    /\ calc.scheduled_at.wall = 1440
    /\ calc.stored = Naive(1140)
    /\ calc.shown = Aware(1320, MSK_OFFSET)

(***************************************************************************)
(* Properties of the event loop (specification SpecLoop).                  *)
(***************************************************************************)
\* a calendar call of the user's handler, a backoff sleep of its retry, or an
\* embedding inference is in progress
ExternalWork(u) == loop.at[u] \in {"calendar", "backoff", "encode"}

\* C20: external I/O never blocks the event loop: while one user's calendar
\* call, a backoff sleep of its retry or an embedding inference is in
\* progress, a waiting update of another user can be given to its handler.
C20_LoopNeverBlocked ==
    \A u, v \in Users :
       (u # v /\ ExternalWork(u) /\ loop.inbox[v] # "none") => ENABLED feed_update(v)

(***************************************************************************)
(* Properties of the guarded body of handle_text_message (SpecGuard).      *)
(***************************************************************************)
\* C21: any exception raised while handle_text_message processes a user's
\* text ends with the apology sent to that user and the error report with the
\* recent dialog window sent to the operators, and never leaves the handler.
C21_ErrorsAreReportedAndContained ==
    \A u \in Users :
       (run[u].pc = "idle" /\ run[u].caught) =>
          /\ run[u].apology
          /\ run[u].reported
          /\ run[u].window = recent_window(dialog[u])
          /\ ~run[u].escaped

(***************************************************************************)
(* Further properties of book_slot and cancel_booking (specification Spec).*)
(***************************************************************************)
\* book_slot, called to confirm a reschedule, has just returned success False
RescheduleFailed(u) ==
    /\ book_slot_sync(u)
    /\ task[u].kind = "confirm_reschedule"
    /\ task'[u] = NoTask

\* C22: if confirming a reschedule fails to create the new booking, the user's
\* original calendar event still exists afterwards.
C22_FailedRescheduleKeepsOldEvent ==
    [][\A u \in Users :
         RescheduleFailed(u) =>
            \A ev \in calendar : ev.id = task[u].cancel_event_id => ev \in calendar']_vars

\* book_slot lines 203-212, the dictionary returned with success True in the
\* step book_slot_persist: lesson_id is the id of the row add_trial_lesson
\* wrote, None when the store part was skipped or raised
book_slot_result(u) ==
    [success |-> TRUE,
     event_id |-> task[u].event_id,
     cancelled_event_id |-> task[u].cancelled_event,
     lesson_id |-> IF Len(lessons') > Len(lessons) THEN Len(lessons') ELSE NoVal]

\* a PLANNED lesson of the user refers to the calendar event eid
PlannedLessonOf(rows, u, eid) ==
    \E i \in 1..Len(rows) : /\ rows[i].status = "PLANNED"
                            /\ rows[i].event_id = eid
                            /\ rows[i].parent = u

\* C23: whenever book_slot returns success=true for a request
\* carrying a user id, a Lesson row with status PLANNED referencing the
\* created calendar event has been persisted.
C23_SuccessImpliesLesson ==
    [][\A u \in Users :
         (book_slot_persist(u) /\ book_slot_result(u).success) =>
            PlannedLessonOf(lessons', u, book_slot_result(u).event_id)]_vars

(***************************************************************************)
(* Properties of create_event under retry (specification SpecInsert).      *)
(***************************************************************************)
\* C24: one book_slot call creates at most one remote calendar event, even
\* when create_event's insert request is retried after a failure whose
\* request had already taken effect on the calendar.
C24_OneEventPerCall ==
    /\ ins.created <= 1
    /\ Cardinality({ ev \in calendar : ev.owner = ins.user /\ ev.start = ins.slot }) <= 1

(***************************************************************************)
(* Properties of repeated confirmations (specification SpecDouble).        *)
(***************************************************************************)
\* the calendar events and the lessons of user u that start at s
BookingsOf(u, s) == { ev \in calendar : ev.owner = u /\ ev.start = s }
LessonsBookedOf(u, s) ==
    { i \in 1..Len(lessons) : lessons[i].parent = u /\ lessons[i].scheduled_at = s - MSK_OFFSET }

EventIdsOf(cal) == { ev.id : ev \in cal }

\* cancel_booking of user u returns in this step; the handler tells the user
\* cancel_ok when it returned True and cancel_failed when it returned False
CancelReturnsFalse(u) == cancel_booking_sync(u) /\ task'[u] = NoTask
CancelReturnsTrue(u) == cancel_booking_db(u)

BookSlotCreates(u) == book_slot_sync(u) /\ task'[u].pc = "persist"

\* no event of the calendar overlaps the slot of the call
SlotFreeOn(cal, u) ==
    \A ev \in cal : ~Overlaps(task[u].slot, task[u].slot + SLOT_DURATION,
                              [start |-> ev.start, end |-> ev.end])

\* the call goes through although the prior event was not deleted and the
\* ledger write failed
GoesThroughWithoutSideSteps(u) ==
    /\ BookSlotCreates(u)
    /\ task'[u].cancelled_event = NoVal
    /\ ledger' = ledger
    /\ \A ev \in calendar : ev \in calendar'

\* C27: the outcome of book_slot is independent of its best-effort side
\* steps: a failure to delete the prior event on reschedule, or a failure of
\* the audit-ledger write, never aborts the booking; the slot is still
\* re-verified, the new event is still created and success=true is returned,
\* with cancelled_event_id null when the prior deletion failed.
C27_SideStepsNeverAbort ==
    [][\A u \in Users :
         LET cid == task[u].cancel_event_id
             deleted == cid \in EventIdsOf(calendar) /\ cid \notin EventIdsOf(calendar')
         IN /\ (task[u].pc = "book_slot" /\ SlotFreeOn(calendar, u)) =>
                 ENABLED GoesThroughWithoutSideSteps(u)
            /\ BookSlotCreates(u) =>
                 /\ task'[u].cancelled_event = IF deleted THEN cid ELSE NoVal
                 /\ SlotFreeOn(calendar \ { ev \in calendar : deleted /\ ev.id = cid }, u)
                 /\ \E ev \in calendar' \ calendar :
                       /\ ev.id = task'[u].event_id
                       /\ ev.start = task[u].slot
                       /\ ev.owner = u
                 /\ ledger' # ledger => ledger'[task'[u].event_id] \in {"created", "rescheduled"}
            /\ (book_slot_persist(u) /\ task[u].kind = "confirm_reschedule") =>
                 outbox' = [user |-> u, text |-> "reschedule_ok", reason |-> "none"]]_vars

\* a reschedule has created the new event although the prior event could not
\* be deleted and the ledger row was not written: the prior event is still on
\* the calendar and the result names no cancelled event
C27_Witness ==
    \E u \in Users :
       /\ task[u].kind = "confirm_reschedule"
       /\ task[u].pc = "persist"
       /\ task[u].cancelled_event = NoVal
       /\ task[u].cancel_event_id \in EventIdsOf(calendar)
       /\ task[u].event_id \in EventIdsOf(calendar)
       /\ ledger[task[u].event_id] = "none"

(***************************************************************************)
(* Properties of the reminder selection (specification SpecSweep).         *)
(***************************************************************************)
\* the window of kind K seen from the UTC clock, and the flag of kind K
WindowOf(k) == IF k = "24h" THEN [from |-> WINDOW_24H_START, to |-> WINDOW_24H_END]
                            ELSE [from |-> WINDOW_1H_START, to |-> WINDOW_1H_END]
FlagOf(l, k) == IF k = "24h" THEN l.reminder_24h_sent ELSE l.reminder_1h_sent

\* a reminder of kind k is due for lesson l at the time nowUtc
ReminderDue(l, k, nowUtc) ==
    /\ l.status = "PLANNED"
    /\ nowUtc + WindowOf(k).from <= l.scheduled_at
    /\ l.scheduled_at <= nowUtc + WindowOf(k).to
    /\ ~FlagOf(l, k)

RepliesAndReturns(u, s, text) ==
    /\ outbox' = [user |-> u, text |-> text, reason |-> "none"]
    /\ msg'[u][s] = NoMsg
    /\ parents' = parents
    /\ blockNotes' = blockNotes

OnboardingOrder ==
    { << FsmIdle, "entering_parent_name" >>,
      << "entering_parent_name", "entering_child_name" >>,
      << "entering_child_name", "entering_child_age" >>,
      << "entering_child_age", "entering_interests" >>,
      << "entering_interests", "choose_contact_method" >>,
      << "choose_contact_method", "entering_phone" >>,
      << "choose_contact_method", "entering_email" >>,
      << "choose_contact_method", FsmIdle >>,
      << "entering_phone", FsmIdle >>,
      << "entering_email", FsmIdle >> }

FinishStates == {"choose_contact_method", "entering_phone", "entering_email"}

\* every change of a user's state is one step of the order, to a state the
\* user has not been in, and an answer the handler accepts is such a change
OneStepForward(u) ==
    /\ fsmState'[u] # fsmState[u] =>
          /\ << fsmState[u], fsmState'[u] >> \in OnboardingOrder
          /\ fsmState'[u] \notin hist[u].visited
    /\ (fsmState[u] \in OnboardingStates \ FinishStates
          /\ fsmData'[u].user_answers # fsmData[u].user_answers)
       => fsmState'[u] # fsmState[u]

\* the handler in slot s of user u enters finish_onboarding
FinishEntered(u, s) ==
    \E childOk \in BOOLEAN :
       \/ process_contact_method(u, s, "telegram", childOk)
       \/ process_phone(u, s, childOk)
       \/ process_email(u, s, childOk)

\* finish_onboarding of the handler in slot s of user u ends with an exception
FinishRaised(u, s) ==
    \/ process_contact_method(u, s, "telegram", FALSE)
    \/ process_phone(u, s, FALSE)
    \/ process_email(u, s, FALSE)
    \/ complete_onboarding_in_db(u, s, FALSE)

\* finish_onboarding is entered in one of the three last states only, and a
\* database row of the onboarding is written by it only
OnlyFinishWrites(u) ==
    /\ \A s \in Slots : FinishEntered(u, s) => fsmState[u] \in FinishStates
    /\ (children'[u] # children[u] \/ parents'[u] # parents[u]) =>
          \E s \in Slots : FinishEntered(u, s) \/ msg[u][s].kind = "onboarding"

AgeInRange(text) == text.numeric /\ text.value \in 1 .. 18

\* C31: at entering_child_age, an input that is not an integer or is outside
\* [1, 18] only re-prompts: the state stays entering_child_age and the
\* accumulated user_answers are unchanged; only an integer in [1, 18]
\* stores child_age and advances to entering_interests.
C31_BadAgeOnlyReprompts ==
    [][\A u \in Users : \A text \in AgeTexts :
         process_child_age(u, text) =>
            IF AgeInRange(text)
            THEN /\ fsmState'[u] = "entering_interests"
                 /\ fsmData'[u].user_answers = fsmData[u].user_answers \cup {"child_age"}
            ELSE /\ fsmState'[u] = "entering_child_age"
                 /\ fsmData'[u] = fsmData[u]
                 /\ outbox'.user = u
                 /\ outbox'.text \in {"age_not_a_number", "age_out_of_range"}]_vars

\* one user has just been asked again after an age out of range and is still
\* at the age step without an age, the other gave an age that was stored
C31_Witness ==
    \E u, v \in Users :
       /\ outbox = [user |-> u, text |-> "age_out_of_range", reason |-> "none"]
       /\ fsmState[u] = "entering_child_age"
       /\ "child_age" \notin fsmData[u].user_answers
       /\ fsmState[v] = "entering_interests"
       /\ "child_age" \in fsmData[v].user_answers

(***************************************************************************)
(* Properties of the routing (specification SpecRouting).                  *)
(***************************************************************************)
\* the states whose text the step handlers of the onboarding and waitlist
\* routers are registered for
StepStates == (OnboardingStates \ {"choose_contact_method", "confirm_data"})
              \cup {"waiting_for_contact"}

\* C32: a text message sent by a user whose state is an onboarding state or
\* the waitlist's waiting_for_contact is handled by that state's step
\* handler and advances the sub-machine; the generic free-text handler does
\* not consume it.
C32_StepHandlerTakesText ==
    [][\A u \in Users :
         (fsmState[u] \in StepStates /\ message_update(u, "plain")) =>
            /\ fsmState'[u] # fsmState[u]
            /\ outbox'.text # "invite_onboarding"]_vars

\* the states a booking, reschedule or cancel flow starts in
FlowStartStates == {"selecting_slot", "selecting_event_to_reschedule",
                    "selecting_event_to_cancel"}

\* /book, /reschedule or /cancel of user u starts its flow
FlowStarts(u) == /\ cmd_book(u) \/ cmd_reschedule(u) \/ cmd_cancel(u)
                 /\ fsmState'[u] \in FlowStartStates

\* C33: starting a booking, reschedule or cancel flow from a command or menu
\* button begins with no selected_slot, selected_event or new_slot left over
\* from an earlier abandoned flow, so that a confirm callback in the shared
\* confirming state acts only on selections of the flow the user is in.
C33_FlowStartsWithoutSelections ==
    [][\A u \in Users :
         FlowStarts(u) => /\ fsmData'[u].selected_slot = NoVal
                          /\ fsmData'[u].selected_event = NoVal
                          /\ fsmData'[u].new_slot = NoVal]_vars

\* C34: get_user_events returns only calendar events that book_slot created
\* for that same user: an event booked by another user is never returned,
\* also when this user's id is a prefix of the other user's id.
C34_OnlyOwnEvents ==
    \A u \in Users : \A ev \in calendar :
       ev.id \in get_user_events(calendar, u) => ev.owner = u

\* C35: the dialog history loaded for a user's relevance classification, LLM
\* context and operator reports contains only turns that were saved for that
\* same user: no other user's dialog turns are ever read into it.
C35_OwnDialogOnly ==
    \A u \in Users : run[u].history.owner \in {NoVal, u}


(***************************************************************************)
(* get_free_slots over a horizon of several days.  One call is followed:   *)
(*   calc.busy      the events of the calendar                             *)
(*   calc.ok_days   the days whose get_busy_slots call returns; on every   *)
(*                  other day it raises after its retries                  *)
(*   calc.end_hour  the end_hour argument                                  *)
(***************************************************************************)
HorizonDays == 3
Horizon == 1 .. HorizonDays
HorizonEndHours == { 12, END_HOUR }

\* the events of the horizon: short ones inside the mornings, and one that
\* runs over midnight from day 1 to day 2
ShortIntervals == { i \in BusyIntervals : i.end - i.start <= SLOT_DURATION }
HorizonEvents ==
    { [start |-> d * MinutesPerDay + i.start, end |-> d * MinutesPerDay + i.end] :
        d \in Horizon, i \in ShortIntervals }
    \cup { [start |-> DayStart(1) + SLOT_DURATION, end |-> DayStart(2) + SLOT_DURATION] }
RECURSIVE HorizonSetsUpTo(_)
HorizonSetsUpTo(n) ==
    IF n = 0 THEN { {} }
    ELSE LET smaller == HorizonSetsUpTo(n - 1)
         IN smaller \cup { B \cup {e} : B \in smaller, e \in HorizonEvents }

InitHorizon ==
    /\ InitBooking
    /\ InitFunnel
    /\ loop = NoLoop
    /\ InitMore
    /\ \E busy \in HorizonSetsUpTo(MaxBusy), ok \in SUBSET Horizon, h \in HorizonEndHours :
         calc = [fn |-> "horizon", busy |-> busy, ok_days |-> ok, end_hour |-> h,
                 returned |-> FALSE, free_slots |-> << >>]

\* the entry appended for a free slot starting at s
slot_entry(s) == [start |-> s, end |-> s + SLOT_DURATION]

\* get_free_slots(days=HorizonDays, end_hour=calc.end_hour)
get_free_slots_horizon ==
    /\ calc.fn = "horizon"
    /\ ~calc.returned
    /\ LET starts == FreeSlotsOver(1, HorizonDays, calc.end_hour, calc.busy, calc.ok_days)
       IN calc' = [calc EXCEPT !.returned = TRUE,
                               !.free_slots = [i \in 1 .. Len(starts) |-> slot_entry(starts[i])]]
    /\ UNCHANGED pureFrame

NextHorizon == get_free_slots_horizon

SpecHorizon == InitHorizon /\ [][NextHorizon]_vars

(***************************************************************************)
(* C36                                                                     *)
(***************************************************************************)
\* the day d on which the slot sl lies within the working hours
WithinHours(sl, d, endHour) == DayStart(d) <= sl.start /\ sl.end <= DayEndAt(d, endHour)

\* C36: the list returned by get_free_slots is in strictly increasing order
\* of start, every slot lasts exactly SLOT_DURATION, and every slot lies
\* within the working hours of one day of the horizon.
C36_SlotsOrderedWithinHours ==
    (calc.fn = "horizon" /\ calc.returned) =>
        LET fs == calc.free_slots
        IN /\ \A i \in 1 .. Len(fs) - 1 : fs[i].start < fs[i + 1].start
           /\ \A i \in 1 .. Len(fs) : fs[i].end - fs[i].start = SLOT_DURATION
           /\ \A i \in 1 .. Len(fs) : \E d \in Horizon : WithinHours(fs[i], d, calc.end_hour)

\* a returned list that goes from the last slot of day 1, ending with the
\* working day, to a slot of day 2 that starts after a busy morning
C36_Witness ==
    /\ calc.fn = "horizon"
    /\ calc.returned
    /\ calc.busy # {}
    /\ \E i \in 1 .. Len(calc.free_slots) - 1 :
         /\ calc.free_slots[i].end = DayEndAt(1, calc.end_hour)
         /\ calc.free_slots[i + 1].start > DayStart(2)
         /\ WithinHours(calc.free_slots[i + 1], 2, calc.end_hour)

(***************************************************************************)
(* C37                                                                     *)
(***************************************************************************)
\* the slots of the list fs that start on day d
DaySlots(fs, d) ==
    LET OnDay(sl) == d * MinutesPerDay <= sl.start /\ sl.start < (d + 1) * MinutesPerDay
    IN SelectSeq(fs, OnDay)

\* the slots of day d when its busy list is fetched
DayScan(d, endHour, cal) ==
    LET starts == ScanDay(DayStart(d), DayEndAt(d, endHour),
                          BusySlots(cal, DayStart(d), DayEndAt(d, endHour)))
    IN [i \in 1 .. Len(starts) |-> slot_entry(starts[i])]

\* C37: a day whose busy list cannot be fetched contributes no slot, and
\* every other day of the horizon contributes exactly its free slots.
C37_FailedDaySkippedOthersKept ==
    (calc.fn = "horizon" /\ calc.returned) =>
        \A d \in Horizon :
            DaySlots(calc.free_slots, d) =
                IF d \in calc.ok_days THEN DayScan(d, calc.end_hour, calc.busy) ELSE << >>

\* a call in which the fetch of one day failed and a later day, with an
\* event in it, still contributed its slots
C37_Witness ==
    /\ calc.fn = "horizon"
    /\ calc.returned
    /\ \E d \in Horizon \ calc.ok_days, later \in calc.ok_days :
         /\ later > d
         /\ DaySlots(calc.free_slots, later) # << >>
         /\ \E e \in calc.busy : e.start >= DayStart(later) /\ e.end <= DayEndAt(later, calc.end_hour)


(***************************************************************************)
(* sync_retry / async_retry.  One call of a wrapped function is followed:  *)
(*   calc.is_async      async_retry (the wait is an await) or sync_retry   *)
(*   calc.max_attempts  the max_attempts argument                          *)
(*   calc.retryable     the retryable_exceptions argument                  *)
(*   calc.attempt       the loop variable                                  *)
(*   calc.log           what each invocation of the wrapped function did   *)
(*   calc.delays        the delays slept so far                            *)
(*   calc.pc            "call", "sleep", "returned" or "raised"            *)
(* on_retry is None at every call site and is left out.                    *)
(***************************************************************************)
MAX_RETRY_ATTEMPTS == 3
INITIAL_DELAY == 1
MAX_DELAY == 10
EXPONENTIAL_BASE == 2
LongAttempts == 6

\* what an invocation raises; CancelledError is a BaseException that is no
\* Exception, the others are subclasses of Exception
ExceptionKinds == { "HttpError", "TimeoutError", "ValueError" }
ErrorKinds == ExceptionKinds \cup { "CancelledError" }
ReturnValues == { "r1", "r2" }

\* the retryable_exceptions lists: the one of the call sites, which names
\* Exception itself, and one without it
RetryableLists == { { "HttpError", "ConnectionError", "TimeoutError", "Exception" },
                    { "HttpError", "ConnectionError", "TimeoutError" } }

\* isinstance(e, exc_type)
isinstance(e, excType) == e = excType \/ (excType = "Exception" /\ e \in ExceptionKinds)

\* should_retry = any(isinstance(e, exc_type) for exc_type in retryable_exceptions)
should_retry(e, retryable) == \E excType \in retryable : isinstance(e, excType)

RECURSIVE Power(_, _)
Power(b, n) == IF n = 0 THEN 1 ELSE b * Power(b, n - 1)

Min(a, b) == IF a <= b THEN a ELSE b

\* delay = min(initial_delay * exponential_base ** (attempt - 1), max_delay)
retry_delay(attempt) == Min(INITIAL_DELAY * Power(EXPONENTIAL_BASE, attempt - 1), MAX_DELAY)

\* a test that lets the last attempt be followed by one more wait
attempts_exhausted_late(attempt, maxAttempts) == attempt > maxAttempts

\* attempt >= max_attempts
attempts_exhausted(attempt, maxAttempts) == attempt >= maxAttempts

InitRetry ==
    /\ InitBooking
    /\ InitFunnel
    /\ loop = NoLoop
    /\ InitMore
    /\ \E isAsync \in BOOLEAN, m \in { MAX_RETRY_ATTEMPTS, LongAttempts },
          retryable \in RetryableLists :
         calc = [fn |-> "retry", is_async |-> isAsync, max_attempts |-> m,
                 retryable |-> retryable, attempt |-> 1, log |-> << >>, delays |-> << >>,
                 last_exception |-> "None", pc |-> "call", result |-> "None",
                 raised |-> "None"]

\* return func(*args, **kwargs): the invocation returns v
attempt_returns(v) ==
    /\ calc.fn = "retry"
    /\ calc.pc = "call"
    /\ calc' = [calc EXCEPT !.log = Append(@, v), !.pc = "returned", !.result = v]
    /\ UNCHANGED pureFrame

\* the invocation raises e: what is no Exception passes through the except
\* clause; otherwise it is re-raised when it is not retryable or the attempts
\* are used up, and else the delay is computed and the wait begins
attempt_raises(e) ==
    /\ calc.fn = "retry"
    /\ calc.pc = "call"
    /\ IF \/ e \notin ExceptionKinds
          \/ ~should_retry(e, calc.retryable)
          \/ attempts_exhausted(calc.attempt, calc.max_attempts)
       THEN calc' = [calc EXCEPT !.log = Append(@, e), !.pc = "raised", !.raised = e]
       ELSE calc' = [calc EXCEPT !.log = Append(@, e), !.pc = "sleep",
                                 !.last_exception = e,
                                 !.delays = Append(@, retry_delay(calc.attempt))]
    /\ UNCHANGED pureFrame

\* the wait is over: the loop goes on with the next attempt, or, when the
\* range is used up, last_exception is raised
sleep_done ==
    /\ calc.fn = "retry"
    /\ calc.pc = "sleep"
    /\ IF calc.attempt < calc.max_attempts
       THEN calc' = [calc EXCEPT !.attempt = @ + 1, !.pc = "call"]
       ELSE calc' = [calc EXCEPT !.pc = "raised", !.raised = calc.last_exception]
    /\ UNCHANGED pureFrame

\* await asyncio.sleep(delay) of async_retry is cancelled
sleep_cancelled ==
    /\ calc.fn = "retry"
    /\ calc.pc = "sleep"
    /\ calc.is_async
    /\ calc' = [calc EXCEPT !.pc = "raised", !.raised = "CancelledError"]
    /\ UNCHANGED pureFrame

NextRetry ==
    \/ \E v \in ReturnValues : attempt_returns(v)
    \/ \E e \in ErrorKinds : attempt_raises(e)
    \/ sleep_done
    \/ sleep_cancelled

SpecRetry == InitRetry /\ [][NextRetry]_vars

\* the wrapped function returns or raises, and a wait comes to its end
SpecRetryLive == SpecRetry /\ WF_vars(NextRetry)

(***************************************************************************)
(* C38                                                                     *)
(***************************************************************************)
RetryOfThree == calc.fn = "retry" /\ calc.max_attempts = MAX_RETRY_ATTEMPTS
RetryOver == calc.pc \in { "returned", "raised" }

\* what holds of a call with max_attempts = 3 at every moment
RetryWithinBounds ==
    RetryOfThree =>
        LET n == Len(calc.log)
        IN /\ n <= MAX_RETRY_ATTEMPTS
           \* every invocation but the last one raised something retryable
           /\ \A k \in 1 .. n - 1 : /\ calc.log[k] \in ExceptionKinds
                                    /\ should_retry(calc.log[k], calc.retryable)
           \* between attempt k and k + 1 the wait is min(1 * 2^(k-1), 10)
           /\ calc.pc = "call" => Len(calc.delays) = n
           /\ Len(calc.delays) \in { n - 1, n }
           /\ \A k \in 1 .. Len(calc.delays) :
                 calc.delays[k] = Min(Power(2, k - 1), 10)
           \* a success ends the call with its result
           /\ (n > 0 /\ calc.log[n] \in ReturnValues) =>
                 calc.pc = "returned" /\ calc.result = calc.log[n] /\ Len(calc.delays) = n - 1
           \* an error outside the retryable set is raised at once
           /\ (n > 0 /\ calc.log[n] \in ErrorKinds
                     /\ ~(calc.log[n] \in ExceptionKinds /\ should_retry(calc.log[n], calc.retryable))) =>
                 calc.pc = "raised" /\ calc.raised = calc.log[n] /\ Len(calc.delays) = n - 1
           \* the third failure is raised without another wait
           /\ (n = MAX_RETRY_ATTEMPTS /\ calc.log[n] \in ErrorKinds) =>
                 calc.pc = "raised" /\ calc.raised = calc.log[n] /\ Len(calc.delays) = n - 1

\* C38: a call with max_attempts = 3 invokes the wrapped function at most 3
\* times, ends at the first success with its result, waits min(1s * 2^(k-1),
\* 10s) after attempt k, raises the last error after the third failure and
\* any error outside the retryable set at once, and always comes to an end.
C38_BoundedRetry == [] RetryWithinBounds /\ <> RetryOver

\* three failures of retryable kinds, two waits of 1s and 2s, the third
\* error raised
C38_Witness ==
    /\ RetryOfThree
    /\ Len(calc.log) = MAX_RETRY_ATTEMPTS
    /\ calc.delays = << 1, 2 >>
    /\ calc.pc = "raised"
    /\ calc.raised = calc.log[MAX_RETRY_ATTEMPTS]
    /\ calc.log[1] # calc.log[MAX_RETRY_ATTEMPTS]


(***************************************************************************)
(* The classifier stages.  Texts are sequences of characters, so that      *)
(* lower() and the substring test are computed.  One query is followed     *)
(* through find_template_by_keywords and IntentRecognizer.recognize:       *)
(*   calc.query      the text handed in                                    *)
(*   calc.templates  TEMPLATES: for each key "absent", "empty" or "full"   *)
(*   calc.rules      the intents of keywords.yaml, in the order of the file*)
(*   calc.semantic   what _get_intent_by_semantic returns for the query    *)
(***************************************************************************)
MaxQueryLen == 2
Chars == { "a", "A", "b" }
lower_char(c) == IF c = "A" THEN "a" ELSE c
\* str.lower()
lower(q) == [i \in 1 .. Len(q) |-> lower_char(q[i])]
\* k in q, for strings
contains(q, k) == \E i \in 0 .. Len(q) - Len(k) : SubSeq(q, i + 1, i + Len(k)) = k

Queries == UNION { [1 .. n -> Chars] : n \in 1 .. MaxQueryLen }
NoIntent == << >>
FirstIntent == << "a", "b" >>
SecondIntent == << "b", "b" >>
IntentNames == << FirstIntent, SecondIntent >>
KeywordLists == { {}, { << "a" >> }, { << "A" >> }, { << "b" >> } }
CallbackKeyLists == { {}, { << "b", "a" >> } }
TemplateTables == [ { FirstIntent, SecondIntent } -> { "absent", "empty", "full" } ]

\* key in TEMPLATES
has_template_key(templates, key) == key \in DOMAIN templates /\ templates[key] # "absent"
\* TEMPLATES.get(key)
get_template(templates, key) == IF has_template_key(templates, key) THEN templates[key] ELSE "None"
\* the truth value of a template
truthy(template) == template = "full"

\* what the loop body of find_template_by_keywords tests for one intent
rule_matches(data, queryLower) ==
    \/ queryLower \in data.callback_keys
    \/ \E keyword \in data.keywords : contains(queryLower, keyword)

\* a loop that goes on to the next intent when the matching one has no template
RECURSIVE scan_intent_keywords_skipping(_, _, _, _)
scan_intent_keywords_skipping(i, rules, templates, queryLower) ==
    IF i > Len(rules) THEN [intent |-> NoIntent, template |-> "None"]
    ELSE IF rule_matches(rules[i], queryLower)
            /\ truthy(get_template(templates, rules[i].intent))
         THEN [intent |-> rules[i].intent, template |-> get_template(templates, rules[i].intent)]
         ELSE scan_intent_keywords_skipping(i + 1, rules, templates, queryLower)

\* the loop over INTENT_KEYWORDS.items() from the i-th intent on: the first
\* intent with a matching callback key or keyword ends the search, with the
\* intent when TEMPLATES.get(intent) is truthy and with (None, None) when not
RECURSIVE scan_intent_keywords(_, _, _, _)
scan_intent_keywords(i, rules, templates, queryLower) ==
    IF i > Len(rules) THEN [intent |-> NoIntent, template |-> "None"]
    ELSE IF rule_matches(rules[i], queryLower)
         THEN LET template == get_template(templates, rules[i].intent)
              IN IF truthy(template)
                 THEN [intent |-> rules[i].intent, template |-> template]
                 ELSE [intent |-> NoIntent, template |-> "None"]
         ELSE scan_intent_keywords(i + 1, rules, templates, queryLower)

\* find_template_by_keywords(query_text); stages are the stages consulted
find_template_by_keywords(queryText, templates, rules) ==
    IF has_template_key(templates, queryText)
    THEN [intent |-> queryText, template |-> get_template(templates, queryText),
          stages |-> { "exact" }]
    ELSE LET r == scan_intent_keywords(1, rules, templates, lower(queryText))
         IN [intent |-> r.intent, template |-> r.template, stages |-> { "exact", "rules" }]

\* IntentRecognizer._get_intent_by_rule from the i-th intent on
RECURSIVE get_intent_by_rule(_, _, _)
get_intent_by_rule(i, rules, queryLower) ==
    IF i > Len(rules) THEN NoIntent
    ELSE IF \E phrase \in rules[i].keywords : contains(queryLower, lower(phrase))
         THEN rules[i].intent
         ELSE get_intent_by_rule(i + 1, rules, queryLower)

\* IntentRecognizer.recognize(query)
recognize(query, rules, semantic) ==
    LET rule_based_intent == get_intent_by_rule(1, rules, lower(query))
    IN IF rule_based_intent # NoIntent
       THEN [intent |-> rule_based_intent, stages |-> { "rule" }]
       ELSE [intent |-> semantic, stages |-> { "rule", "semantic" }]

NoAnswer == [intent |-> NoIntent, stages |-> {}]

InitClassify ==
    /\ InitBooking
    /\ InitFunnel
    /\ loop = NoLoop
    /\ InitMore
    /\ \E q \in Queries, templates \in TemplateTables,
          k1 \in KeywordLists, k2 \in KeywordLists,
          c1 \in CallbackKeyLists, c2 \in CallbackKeyLists,
          semantic \in { NoIntent, SecondIntent } :
         calc = [fn |-> "classify", query |-> q, templates |-> templates,
                 rules |-> << [intent |-> IntentNames[1], keywords |-> k1, callback_keys |-> c1],
                              [intent |-> IntentNames[2], keywords |-> k2, callback_keys |-> c2] >>,
                 semantic |-> semantic,
                 found |-> FALSE, template_answer |-> [intent |-> NoIntent, template |-> "None", stages |-> {}],
                 recognized |-> FALSE, recognizer_answer |-> NoAnswer]

\* a call of find_template_by_keywords(calc.query)
find_template_query ==
    /\ calc.fn = "classify"
    /\ ~calc.found
    /\ calc' = [calc EXCEPT !.found = TRUE,
                  !.template_answer = find_template_by_keywords(calc.query, calc.templates, calc.rules)]
    /\ UNCHANGED pureFrame

\* a call of recognizer.recognize(calc.query)
recognize_query ==
    /\ calc.fn = "classify"
    /\ ~calc.recognized
    /\ calc' = [calc EXCEPT !.recognized = TRUE,
                  !.recognizer_answer = recognize(calc.query, calc.rules, calc.semantic)]
    /\ UNCHANGED pureFrame

NextClassify ==
    \/ find_template_query
    \/ recognize_query

SpecClassify == InitClassify /\ [][NextClassify]_vars

(***************************************************************************)
(* C39                                                                     *)
(***************************************************************************)
\* the intents of calc.rules that match the lower-cased query by a callback
\* key or a keyword substring, and the first of them
MatchingRules == { i \in 1 .. Len(calc.rules) : rule_matches(calc.rules[i], lower(calc.query)) }
FirstMatching == CHOOSE i \in MatchingRules : \A j \in MatchingRules : i <= j
\* the intents with a keyword phrase in the query, as recognize tests it
KeywordRules ==
    { i \in 1 .. Len(calc.rules) :
        \E phrase \in calc.rules[i].keywords : contains(lower(calc.query), lower(phrase)) }
FirstKeyword == CHOOSE i \in KeywordRules : \A j \in KeywordRules : i <= j

\* an input equal to a template key returns the key, the rules not consulted
ExactStageShortCircuits ==
    (calc.found /\ has_template_key(calc.templates, calc.query)) =>
        /\ calc.template_answer.intent = calc.query
        /\ "rules" \notin calc.template_answer.stages

\* in recognize a keyword match returns its intent, the semantic stage being
\* consulted only when no keyword matches
RecognizeShortCircuits ==
    calc.recognized =>
        /\ KeywordRules # {} => /\ calc.recognizer_answer.intent = calc.rules[FirstKeyword].intent
                                /\ "semantic" \notin calc.recognizer_answer.stages
        /\ KeywordRules = {} => /\ calc.recognizer_answer.intent = calc.semantic
                                /\ "semantic" \in calc.recognizer_answer.stages

\* C39 as stated: each stage short-circuits on success; an input equal to a
\* template key returns that key; otherwise the first configured intent with a
\* matching callback key or keyword is returned; recognize returns a keyword
\* match without the semantic stage.
C39_FirstMatchReturned ==
    (calc.fn = "classify") =>
        /\ ExactStageShortCircuits
        /\ (calc.found /\ ~has_template_key(calc.templates, calc.query) /\ MatchingRules # {}) =>
              calc.template_answer.intent = calc.rules[FirstMatching].intent
        /\ RecognizeShortCircuits

\* C39 amended: as above, but the first matching intent is returned only
\* when TEMPLATES holds a non-empty template for it; when it does not, no
\* intent is returned, whatever the later intents would match.
C39_FirstMatchDecides ==
    (calc.fn = "classify") =>
        /\ ExactStageShortCircuits
        /\ (calc.found /\ ~has_template_key(calc.templates, calc.query)) =>
              calc.template_answer.intent =
                 IF MatchingRules # {}
                    /\ truthy(get_template(calc.templates, calc.rules[FirstMatching].intent))
                 THEN calc.rules[FirstMatching].intent
                 ELSE NoIntent
        /\ RecognizeShortCircuits

\* the first matching intent has no template, a later intent matches and has
\* one, and no intent was returned; recognize answered by keyword
C39_Witness ==
    /\ calc.fn = "classify"
    /\ calc.found
    /\ calc.recognized
    /\ ~has_template_key(calc.templates, calc.query)
    /\ MatchingRules = { 1, 2 }
    /\ ~truthy(get_template(calc.templates, calc.rules[1].intent))
    /\ truthy(get_template(calc.templates, calc.rules[2].intent))
    /\ calc.template_answer.intent = NoIntent
    /\ calc.recognizer_answer.stages = { "rule" }


(***************************************************************************)
(* get_gigachat_client.  The coroutines that call it run on one event loop *)
(* and are interleaved at the await of create_gigachat_instance, which     *)
(* hands the construction to an executor thread.                           *)
(*   calc.has_key    config.SBERCLOUD_API_KEY is set                       *)
(*   calc.instance   the global _gigachat_instance, NoVal for None         *)
(*   calc.created    the number of GigaChat objects constructed so far;    *)
(*                   the k-th object is named k                            *)
(*   calc.handed     the objects returned to callers so far                *)
(*   calc.callers    for each caller: where its call is, what it got, and  *)
(*                   how many calls it has made                            *)
(***************************************************************************)
NumCallers == 2
MaxCalls == 3
MaxCreated == 3
Callers == 1 .. NumCallers

InitClient ==
    /\ InitBooking
    /\ InitFunnel
    /\ loop = NoLoop
    /\ InitMore
    /\ \E hasKey \in BOOLEAN :
         calc = [fn |-> "client", has_key |-> hasKey, instance |-> NoVal, created |-> 0,
                 handed |-> {},
                 callers |-> [c \in Callers |-> [pc |-> "idle", got |-> NoVal, calls |-> 0]]]

\* a call returns x to caller c
client_returned(c, x) ==
    [calc EXCEPT !.callers[c] = [pc |-> "returned", got |-> x, calls |-> @.calls + 1],
                 !.handed = IF x = NoVal THEN @ ELSE @ \cup { x }]

\* get_gigachat_client up to its await: the instance that exists is returned,
\* None is returned without a key, and else create_gigachat_instance is awaited
get_gigachat_client(c) ==
    /\ calc.fn = "client"
    /\ calc.callers[c].pc \in { "idle", "returned" }
    /\ calc.callers[c].calls < MaxCalls
    /\ IF calc.instance # NoVal THEN calc' = client_returned(c, calc.instance)
       ELSE IF ~calc.has_key THEN calc' = client_returned(c, NoVal)
       ELSE calc' = [calc EXCEPT !.callers[c].pc = "creating"]
    /\ UNCHANGED pureFrame

\* create_gigachat_instance returns a new object: it is stored in the global
\* and returned
create_gigachat_instance_returns(c) ==
    /\ calc.fn = "client"
    /\ calc.callers[c].pc = "creating"
    /\ calc.created < MaxCreated
    /\ LET new == calc.created + 1
       IN calc' = [client_returned(c, new) EXCEPT !.created = new, !.instance = new]
    /\ UNCHANGED pureFrame

\* create_gigachat_instance raises: the global is reset to None, None is returned
create_gigachat_instance_raises(c) ==
    /\ calc.fn = "client"
    /\ calc.callers[c].pc = "creating"
    /\ calc' = [client_returned(c, NoVal) EXCEPT !.instance = NoVal]
    /\ UNCHANGED pureFrame

NextClient ==
    \/ \E c \in Callers : get_gigachat_client(c)
    \/ \E c \in Callers : create_gigachat_instance_returns(c)
    \/ \E c \in Callers : create_gigachat_instance_raises(c)

SpecClient == InitClient /\ [][NextClient]_vars

(***************************************************************************)
(* C40                                                                     *)
(***************************************************************************)
\* C40: under any interleaving of get_gigachat_client calls at most one
\* client is ever created, and every caller that gets a client gets that one.
C40_OneClientForAll ==
    (calc.fn = "client") =>
        /\ calc.created <= 1
        /\ Cardinality(calc.handed) <= 1

=============================================================================
